---- MODULE Spec2Model ----
(***************************************************************************)
(* A model of the soundly audio engine: the track store and the engine    *)
(* facade (src/src/audio_engine.rs) and the playback object whose state   *)
(* is shared, under a mutex, with the output device's callback            *)
(* (src/src/playback.rs).                                                  *)
(*                                                                         *)
(* Times are exact rationals k / TimeDen seconds (k a natural number);    *)
(* sample rates divide TimeDen, so every duration frames / rate is on the  *)
(* grid and `(t * rate as f64) as usize` is the integer floor below.       *)
(* Samples are integers, FullScale standing for 1.0.                       *)
(***************************************************************************)
EXTENDS Integers, Sequences, FiniteSets, TLC

\* ------------------------------------------------------------- bounds
MaxTracks == 2
MaxFrames == 2
MaxTime == 2
MaxBlock == 2
MaxIndices == 2
MaxStoreTracks == 3
MaxPairTracks == 4
MaxPixels == 3
MaxSamples == 8300
MaxLevel == 9
MaxFineBlock == 4
MaxSubBlock == 8
FullScale == 4

\* ---------------------------------------------------------- constants
DefaultRate == 44100
DefaultChannels == 2
MinSamples == 16
MaxCompressionLevel == 8
FastBlockSize == 1152
DefaultBlockSize == 4096
MinBlockSize == 16
BitsPerSample == 16
MaxRiceParam4Bit == 14

Rates == {1, 2}
ChannelCounts == {1, 2}

\* The time grid: the least denominator every rate divides.
TimeDen == CHOOSE d \in 1..4 : /\ \A r \in Rates : d % r = 0
                               /\ \A e \in 1..(d - 1) : \E r \in Rates : e % r # 0

Times == 0..MaxTime
\* Option<f64>: <<>> is None, <<t>> is Some(t).
OptTimes == {<<>>} \cup {<<t>> : t \in Times}

Min(a, b) == IF a <= b THEN a ELSE b
Max(a, b) == IF a >= b THEN a ELSE b

\* usize::saturating_sub
SaturatingSub(a, b) == IF a >= b THEN a - b ELSE 0

\* (time * rate as f64) as usize, for a time t / TimeDen seconds
ToFrame(t, rate) == (t * rate) \div TimeDen

\* f32::clamp(-1.0, 1.0)
Clamp(x) == IF x < -FullScale THEN -FullScale ELSE IF x > FullScale THEN FullScale ELSE x

\* The samples an external decoder hands over for a stream of `frames` frames.
DecodedData(frames, channels) == [i \in 1..(frames * channels) |-> i]

VARIABLES
    tracks,                 \* AudioEngine.tracks: sequence of AudioTrack
    playback,               \* AudioEngine.playback: <<>> or <<AudioPlayback>>
    playback_sample_rate,   \* AudioEngine.playback_sample_rate: <<>> or <<rate>>
    pc,                     \* the facade thread's place: "idle", or inside play
    lock,                   \* the playback state's mutex: "free" or "facade"
    pending,                \* the arguments of the AudioPlayback::play in progress
    aborted,                \* a facade call panicked (the engine mutex is poisoned)
    quiet,                  \* the owner makes no further facade call
    last,                   \* history: the last facade call, its arguments and result
    pauseMark,              \* history: <<>> or the position when pause returned
    flac,                   \* the export_to_flac_with_level call: its place and locals
    subframe                \* one encode_subframe call: its arguments and what it wrote

vars == <<tracks, playback, playback_sample_rate, pc, lock, pending, aborted,
          quiet, last, pauseMark, flac, subframe>>

\* The engine's own variables: the encoder's steps leave them alone.
engineVars == <<tracks, playback, playback_sample_rate, pc, lock, pending, aborted,
                quiet, last, pauseMark>>

NoPending == [buffer |-> <<>>, offset |-> 0, start_time |-> <<>>, end_time |-> <<>>]

\* ------------------------------------------------------- track store

\* AudioEngine::get_duration, in grid units
RECURSIVE GetDurationFrom(_, _)
GetDurationFrom(trs, i) ==
    IF i > Len(trs) THEN 0
    ELSE LET track == trs[i]
             d == IF track.audio_data = <<>> THEN 0
                  ELSE ((Len(track.audio_data) \div track.channels) * TimeDen)
                           \div track.sample_rate
         IN Max(d, GetDurationFrom(trs, i + 1))

GetDuration(trs) == GetDurationFrom(trs, 1)

\* (a variant that compares with the track loaded last)
MismatchedRateOfLastTrack(trs, sample_rate) ==
    IF trs # <<>>
    THEN LET existing_rate == trs[Len(trs)].sample_rate
         IN IF existing_rate # sample_rate THEN <<existing_rate>> ELSE <<>>
    ELSE <<>>

\* load_file's mismatched_rate
MismatchedRate(trs, sample_rate) ==
    IF trs # <<>>
    THEN LET existing_rate == trs[1].sample_rate
         IN IF existing_rate # sample_rate THEN <<existing_rate>> ELSE <<>>
    ELSE <<>>

\* ---------------------------------------------------------- waveform

ZeroTuple == <<0, 0, 0, 0>>

\* One entry of the individual-sample mode: (0, left, 0, right)
SampleTuple(track, frame) ==
    LET n == Len(track.audio_data)
    IN IF track.channels = 2
       THEN IF frame * 2 + 1 < n
            THEN <<0, track.audio_data[frame * 2 + 1], 0, track.audio_data[frame * 2 + 2]>>
            ELSE ZeroTuple
       ELSE IF track.channels = 1
            THEN IF frame < n
                 THEN <<0, track.audio_data[frame + 1], 0, track.audio_data[frame + 1]>>
                 ELSE ZeroTuple
            ELSE IF frame * track.channels < n
                 THEN <<0, track.audio_data[frame * track.channels + 1],
                        0, track.audio_data[frame * track.channels + 1]>>
                 ELSE ZeroTuple

\* The bounds test of the pixel loops: idx + 1 < len for a stereo track,
\* idx < len for any other
FrameInTrack(track, frame) ==
    IF track.channels = 2 THEN frame * 2 + 1 < Len(track.audio_data)
    ELSE frame * track.channels < Len(track.audio_data)

\* min and max, both started at 0, of channel ch over the frames from..to-1
RECURSIVE PixelMin(_, _, _, _)
PixelMin(track, ch, from, to) ==
    IF from >= to THEN 0
    ELSE LET idx == from * track.channels + ch
             rest == PixelMin(track, ch, from + 1, to)
         IN IF FrameInTrack(track, from)
            THEN Min(track.audio_data[idx + 1], rest) ELSE rest

RECURSIVE PixelMax(_, _, _, _)
PixelMax(track, ch, from, to) ==
    IF from >= to THEN 0
    ELSE LET idx == from * track.channels + ch
             rest == PixelMax(track, ch, from + 1, to)
         IN IF FrameInTrack(track, from)
            THEN Max(track.audio_data[idx + 1], rest) ELSE rest

\* One entry of the normal mode, for pixel i (counted from 0).
\* (i as f64 * samples_per_pixel) as usize is floor(i * frame_count / num_pixels):
\* the products are exact for the frame and pixel counts of this model.
PixelTuple(track, start_frame, end_frame, num_pixels, i) ==
    LET frame_count == end_frame - start_frame
        pixel_start_frame == start_frame + (i * frame_count) \div num_pixels
        pixel_end_frame == Min(start_frame + ((i + 1) * frame_count) \div num_pixels,
                               end_frame)
    IN IF pixel_start_frame >= pixel_end_frame THEN ZeroTuple
       ELSE IF track.channels = 2
            THEN <<PixelMin(track, 0, pixel_start_frame, pixel_end_frame),
                   PixelMax(track, 0, pixel_start_frame, pixel_end_frame),
                   PixelMin(track, 1, pixel_start_frame, pixel_end_frame),
                   PixelMax(track, 1, pixel_start_frame, pixel_end_frame)>>
            ELSE <<PixelMin(track, 0, pixel_start_frame, pixel_end_frame),
                   PixelMax(track, 0, pixel_start_frame, pixel_end_frame),
                   PixelMin(track, 0, pixel_start_frame, pixel_end_frame),
                   PixelMax(track, 0, pixel_start_frame, pixel_end_frame)>>

\* get_track_waveform from the frame range on
WaveformOfFrames(track, start_frame, end_frame, num_pixels) ==
    IF start_frame >= end_frame
    THEN [i \in 1..num_pixels |-> ZeroTuple]
    ELSE LET frame_count == end_frame - start_frame
         IN IF frame_count < num_pixels      \* samples_per_pixel < 1.0
            THEN [n \in 1..frame_count |-> SampleTuple(track, start_frame + n - 1)]
            ELSE [i \in 1..num_pixels |->
                     PixelTuple(track, start_frame, end_frame, num_pixels, i - 1)]

\* (a variant that does not clamp the range to the track's frames)
GetTrackWaveformUnclamped(track, start, end, num_pixels) ==
    IF track.audio_data = <<>> \/ num_pixels = 0
    THEN [i \in 1..num_pixels |-> ZeroTuple]
    ELSE WaveformOfFrames(track, ToFrame(start, track.sample_rate),
                          ToFrame(end, track.sample_rate), num_pixels)

\* AudioEngine::get_track_waveform
GetTrackWaveform(track, start, end, num_pixels) ==
    IF track.audio_data = <<>> \/ num_pixels = 0
    THEN [i \in 1..num_pixels |-> ZeroTuple]
    ELSE LET frames == Len(track.audio_data) \div track.channels
             start_frame == Min(ToFrame(start, track.sample_rate), frames)
             end_frame == Min(ToFrame(end, track.sample_rate), frames)
         IN WaveformOfFrames(track, start_frame, end_frame, num_pixels)

\* ------------------------------------------------------------- mixer

\* One track's addend to mixed_data[idx] (idx counted from 0) in the loop of
\* mix_tracks_for_playback; the loop's break at the track's end leaves zero.
TrackContribution(track, start, end, total_frames, output_channels, idx) ==
    LET track_start_frame == ToFrame(start, track.sample_rate)
        track_end_frame == ToFrame(end, track.sample_rate)
        track_total_frames == SaturatingSub(track_end_frame, track_start_frame)
        frame_idx == idx \div output_channels
        ch == idx % output_channels
        track_frame == track_start_frame + frame_idx
        n == Len(track.audio_data)
    IN IF frame_idx >= Min(total_frames, track_total_frames) THEN 0
       ELSE IF track_frame >= n \div track.channels THEN 0
       ELSE IF output_channels = 2
            THEN IF track.channels = 2
                 THEN IF track_frame * 2 + 1 < n
                      THEN track.audio_data[track_frame * 2 + ch + 1] ELSE 0
                 ELSE IF track.channels = 1
                      THEN IF track_frame < n
                           THEN track.audio_data[track_frame + 1] ELSE 0
                      ELSE 0
            ELSE IF track.channels = 1
                 THEN IF track_frame < n
                      THEN track.audio_data[track_frame + 1] ELSE 0
                 ELSE 0

RECURSIVE MixSum(_, _, _, _, _, _, _)
MixSum(trs, i, start, end, total_frames, output_channels, idx) ==
    IF i > Len(trs) THEN 0
    ELSE TrackContribution(trs[i], start, end, total_frames, output_channels, idx)
         + MixSum(trs, i + 1, start, end, total_frames, output_channels, idx)

\* (a variant that takes the first track's channel count)
OutputChannelsOfFirst(trs) == trs[1].channels

\* has_stereo / output_channels of mix_tracks_for_playback
OutputChannels(trs) ==
    IF \E i \in 1..Len(trs) : trs[i].channels = 2 THEN 2 ELSE 1

\* AudioEngine::mix_tracks_for_playback: (mixed_data, sample_rate, channels)
MixTracksForPlayback(trs, start, end) ==
    IF trs = <<>>
    THEN [data |-> <<>>, sample_rate |-> DefaultRate, channels |-> DefaultChannels]
    ELSE LET sample_rate == trs[1].sample_rate
             output_channels == OutputChannels(trs)
             start_frame == ToFrame(start, sample_rate)
             end_frame == ToFrame(end, sample_rate)
             total_frames == SaturatingSub(end_frame, start_frame)
         IN IF total_frames = 0
            THEN [data |-> <<>>, sample_rate |-> sample_rate,
                  channels |-> output_channels]
            ELSE [data |-> [j \in 1..(total_frames * output_channels) |->
                              Clamp(MixSum(trs, 1, start, end, total_frames,
                                           output_channels, j - 1))],
                  sample_rate |-> sample_rate,
                  channels |-> output_channels]

\* One item of mix_tracks_for_export's result: (data, rate, channels, suffix).
\* The data are numerators over den: 1 everywhere but in the mono downmix,
\* whose (L + R) / 2.0 is kept exact in halves of a sample unit.
ExportItem(data, sample_rate, channels, suffix, den) ==
    [data |-> data, sample_rate |-> sample_rate, channels |-> channels,
     suffix |-> suffix, den |-> den]

\* (a variant that reads the right sample into left_data and the left into
\* right_data)
RECURSIVE SplitFramesSwapped(_, _, _, _)
SplitFramesSwapped(track, track_start_frame, frame_idx, track_total_frames) ==
    IF frame_idx >= track_total_frames THEN [left |-> <<>>, right |-> <<>>]
    ELSE LET track_idx == (track_start_frame + frame_idx) * 2
         IN IF track_idx + 1 < Len(track.audio_data)
            THEN LET rest == SplitFramesSwapped(track, track_start_frame,
                                                frame_idx + 1, track_total_frames)
                 IN [left |-> <<track.audio_data[track_idx + 2]>> \o rest.left,
                     right |-> <<track.audio_data[track_idx + 1]>> \o rest.right]
            ELSE [left |-> <<>>, right |-> <<>>]

\* The loop of the "split" arm over one stereo track's frames, from
\* frame_idx on: the (left_data, right_data) pushed until the loop's break.
RECURSIVE SplitFrames(_, _, _, _)
SplitFrames(track, track_start_frame, frame_idx, track_total_frames) ==
    IF frame_idx >= track_total_frames THEN [left |-> <<>>, right |-> <<>>]
    ELSE LET track_frame == track_start_frame + frame_idx
             track_idx == track_frame * 2
         IN IF track_idx + 1 < Len(track.audio_data)
            THEN LET rest == SplitFrames(track, track_start_frame, frame_idx + 1,
                                         track_total_frames)
                 IN [left |-> <<track.audio_data[track_idx + 1]>> \o rest.left,
                     right |-> <<track.audio_data[track_idx + 2]>> \o rest.right]
            ELSE [left |-> <<>>, right |-> <<>>]

\* The "split" arm's loop over the tracks, from track i on: its results
RECURSIVE SplitResults(_, _, _, _, _)
SplitResults(trs, i, start, total_frames, sample_rate) ==
    IF i > Len(trs) THEN <<>>
    ELSE LET track == trs[i]
             rest == SplitResults(trs, i + 1, start, total_frames, sample_rate)
         IN IF track.channels = 2
            THEN LET track_start_frame == ToFrame(start, track.sample_rate)
                     track_total_frames ==
                         Min(total_frames,
                             SaturatingSub(Len(track.audio_data) \div 2,
                                           track_start_frame))
                     lr == SplitFrames(track, track_start_frame, 0, track_total_frames)
                 IN <<ExportItem(lr.left, sample_rate, 1, "_L", 1),
                      ExportItem(lr.right, sample_rate, 1, "_R", 1)>> \o rest
            ELSE rest

\* (a variant without the filter on the channel count)
MonoTracksUnfiltered(trs, i) == SubSeq(trs, i, Len(trs))

\* mono_tracks of the "mono_to_stereo" arm: the mono tracks in store order
RECURSIVE MonoTracks(_, _)
MonoTracks(trs, i) ==
    IF i > Len(trs) THEN <<>>
    ELSE (IF trs[i].channels = 1 THEN <<trs[i]>> ELSE <<>>) \o MonoTracks(trs, i + 1)

\* The "mono_to_stereo" arm's loop over the pairs, from pair_idx (counted from
\* 0) on: each pair assigns, it does not add, where its tracks have a sample.
RECURSIVE PairFill(_, _, _, _, _)
PairFill(stereo_data, mono_tracks, pair_idx, start, total_frames) ==
    IF pair_idx + 1 >= Len(mono_tracks) THEN stereo_data
    ELSE LET left_track == mono_tracks[pair_idx + 1]
             right_track == mono_tracks[pair_idx + 2]
             left_start == ToFrame(start, left_track.sample_rate)
             right_start == ToFrame(start, right_track.sample_rate)
             filled ==
                 [j \in 1..(total_frames * 2) |->
                     LET frame_idx == (j - 1) \div 2
                     IN IF (j - 1) % 2 = 0
                        THEN IF left_start + frame_idx < Len(left_track.audio_data)
                             THEN left_track.audio_data[left_start + frame_idx + 1]
                             ELSE stereo_data[j]
                        ELSE IF right_start + frame_idx < Len(right_track.audio_data)
                             THEN right_track.audio_data[right_start + frame_idx + 1]
                             ELSE stereo_data[j]]
         IN PairFill(filled, mono_tracks, pair_idx + 2, start, total_frames)

\* One track's addend to mono_data[frame_idx] in the "mono" arm, in halves
MonoContribution(track, start, total_frames, frame_idx) ==
    LET track_start_frame == ToFrame(start, track.sample_rate)
        track_total_frames ==
            Min(total_frames,
                SaturatingSub(Len(track.audio_data) \div track.channels,
                              track_start_frame))
        track_frame == track_start_frame + frame_idx
        n == Len(track.audio_data)
    IN IF frame_idx >= track_total_frames THEN 0
       ELSE IF track.channels = 2
            THEN IF track_frame * 2 + 1 < n
                 THEN track.audio_data[track_frame * 2 + 1]
                      + track.audio_data[track_frame * 2 + 2]
                 ELSE 0
            ELSE IF track.channels = 1
                 THEN IF track_frame < n THEN 2 * track.audio_data[track_frame + 1]
                      ELSE 0
                 ELSE 0

RECURSIVE MonoSum(_, _, _, _, _)
MonoSum(trs, i, start, total_frames, frame_idx) ==
    IF i > Len(trs) THEN 0
    ELSE MonoContribution(trs[i], start, total_frames, frame_idx)
         + MonoSum(trs, i + 1, start, total_frames, frame_idx)

\* f32::clamp(-1.0, 1.0) on a value in halves
ClampHalves(x) ==
    IF x < -(2 * FullScale) THEN -(2 * FullScale)
    ELSE IF x > 2 * FullScale THEN 2 * FullScale ELSE x

\* AudioEngine::mix_tracks_for_export: the list of items
MixTracksForExport(trs, start, end, channel_mode) ==
    IF trs = <<>>
    THEN <<ExportItem(<<>>, DefaultRate, DefaultChannels, "", 1)>>
    ELSE LET sample_rate == trs[1].sample_rate
             start_frame == ToFrame(start, sample_rate)
             end_frame == ToFrame(end, sample_rate)
             total_frames == SaturatingSub(end_frame, start_frame)
         IN IF total_frames = 0
            THEN <<ExportItem(<<>>, sample_rate, 2, "", 1)>>
            ELSE CASE channel_mode = "split" ->
                        LET results == SplitResults(trs, 1, start, total_frames,
                                                    sample_rate)
                        IN IF results = <<>>
                           THEN <<ExportItem(<<>>, sample_rate, 1, "", 1)>>
                           ELSE results
                   [] channel_mode = "mono_to_stereo" ->
                        <<ExportItem(
                            PairFill([j \in 1..(total_frames * 2) |-> 0],
                                     MonoTracks(trs, 1), 0, start, total_frames),
                            sample_rate, 2, "", 1)>>
                   [] channel_mode = "mono" ->
                        <<ExportItem(
                            [j \in 1..total_frames |->
                                ClampHalves(MonoSum(trs, 1, start, total_frames, j - 1))],
                            sample_rate, 1, "", 2)>>
                   [] OTHER ->
                        LET mix == MixTracksForPlayback(trs, start, end)
                        IN <<ExportItem(mix.data, mix.sample_rate, mix.channels, "", 1)>>

\* export_audio's export_items: the mix the writers are handed
ExportItems(trs, start, end, mode) ==
    IF mode = "auto"
    THEN LET mix == MixTracksForPlayback(trs, start, end)
         IN <<ExportItem(mix.data, mix.sample_rate, mix.channels, "", 1)>>
    ELSE MixTracksForExport(trs, start, end, mode)

\* --------------------------------------------------- playback object

\* AudioPlayback::new: the state the stream's callback shares, and the
\* configuration the stream was opened with.
NewPlayback(sample_rate, channels) ==
    [buffer |-> <<>>, position |-> 0, is_playing |-> FALSE, is_paused |-> FALSE,
     start_time_offset |-> 0, sample_rate |-> sample_rate, channels |-> channels]

\* (a variant that lowers is_playing only once position is past the buffer)
CallbackSamplePastEnd(st) ==
    IF st.is_playing /\ st.position < Len(st.buffer)
    THEN [st |-> [st EXCEPT !.position = st.position + 1],
          sample |-> st.buffer[st.position + 1]]
    ELSE [st |-> IF st.position > Len(st.buffer)
                 THEN [st EXCEPT !.is_playing = FALSE] ELSE st,
          sample |-> 0]

\* (a variant that forgets is_playing: a paused callback would advance)
CallbackSampleIgnoresFlag(st) ==
    IF st.position < Len(st.buffer)
    THEN [st |-> [st EXCEPT !.position = st.position + 1],
          sample |-> st.buffer[st.position + 1]]
    ELSE [st |-> [st EXCEPT !.is_playing = FALSE], sample |-> 0]

\* (a variant that never lowers is_playing at the end of the buffer)
CallbackSampleNoEndFlag(st) ==
    IF st.is_playing /\ st.position < Len(st.buffer)
    THEN [st |-> [st EXCEPT !.position = st.position + 1],
          sample |-> st.buffer[st.position + 1]]
    ELSE [st |-> st, sample |-> 0]

\* One iteration of the output callback's loop over the device's block:
\* the state after it, and the sample written.
CallbackSample(st) ==
    IF st.is_playing /\ st.position < Len(st.buffer)
    THEN [st |-> [st EXCEPT !.position = st.position + 1],
          sample |-> st.buffer[st.position + 1]]
    ELSE [st |-> IF st.position >= Len(st.buffer)
                 THEN [st EXCEPT !.is_playing = FALSE] ELSE st,
          sample |-> 0]

\* The callback over a block of n samples: the state after and the block.
RECURSIVE CallbackBlock(_, _)
CallbackBlock(st, n) ==
    IF n = 0 THEN [st |-> st, out |-> <<>>]
    ELSE LET one == CallbackSample(st)
             rest == CallbackBlock(one.st, n - 1)
         IN [st |-> rest.st, out |-> <<one.sample>> \o rest.out]

\* AudioPlayback::resume
Resume(st) ==
    IF st.is_paused /\ st.buffer # <<>>
    THEN [st EXCEPT !.is_playing = TRUE, !.is_paused = FALSE]
    ELSE st

\* (a variant that sets is_paused and leaves is_playing)
PauseKeepsPlaying(st) ==
    IF st.is_playing THEN [st EXCEPT !.is_paused = TRUE] ELSE st

\* AudioPlayback::pause
Pause(st) ==
    IF st.is_playing
    THEN [st EXCEPT !.is_playing = FALSE, !.is_paused = TRUE]
    ELSE st

\* (a variant that forgets to rewind)
StopKeepsPosition(st) ==
    [st EXCEPT !.is_playing = FALSE, !.is_paused = FALSE, !.start_time_offset = 0]

\* AudioPlayback::stop
Stop(st) ==
    [st EXCEPT !.is_playing = FALSE, !.is_paused = FALSE, !.position = 0,
               !.start_time_offset = 0]

\* (a variant that places the position in frames, not in samples)
SetPositionInFrames(st, t) ==
    [st EXCEPT !.position = Min(ToFrame(t, st.sample_rate), Len(st.buffer))]

\* (a variant without the clamp to the buffer's length)
SetPositionUnclamped(st, t) ==
    [st EXCEPT !.position = ToFrame(t, st.sample_rate) * st.channels]

\* AudioPlayback::set_position, for a time t / TimeDen seconds
SetPosition(st, t) ==
    LET sample_position == ToFrame(t, st.sample_rate) * st.channels
    IN [st EXCEPT !.position = Min(sample_position, Len(st.buffer))]

\* AudioPlayback::get_position as an exact rational <<numerator, denominator>>
\* of grid units: current_sample / sample_rate + start_time_offset
GetPosition(st) ==
    LET current_sample == st.position \div st.channels
    IN <<current_sample * TimeDen + st.start_time_offset * st.sample_rate,
         st.sample_rate>>

\* AudioPlayback::is_playing / is_paused through the engine's Option
EngineIsPlaying == IF playback = <<>> THEN FALSE ELSE playback[1].is_playing
EngineIsPaused == playback # <<>> /\ playback[1].is_paused

\* AudioEngine::get_playback_position, as GetPosition's rational
EngineGetPlaybackPosition == IF playback = <<>> THEN <<0, 1>> ELSE GetPosition(playback[1])

\* The MutexGuard taken at the top of AudioPlayback::play lives to the end
\* of the function: the lock stays held between its assignments.
\* (the variant PlayGuardDropped locks each assignment on its own)
PlayGuardDropped == FALSE
PlayGuardHeld == TRUE

\* (a variant that reopens the stream only when there is none)
NeedsNewPlaybackOnlyIfNone(pb, psr, sample_rate) == pb = <<>>

\* play's needs_new_playback
NeedsNewPlayback(pb, psr, sample_rate) ==
    pb = <<>> \/ psr # <<sample_rate>>

\* ----------------------------------------------------- delete_region

\* (a variant that drains the closed range a..=b)
DrainInclusive(data, a, b) == SubSeq(data, 1, a) \o SubSeq(data, b + 2, Len(data))

\* Vec::drain(a..b) on a vector: what is left (a, b counted from 0)
Drain(data, a, b) == SubSeq(data, 1, a) \o SubSeq(data, b + 1, Len(data))

\* (a variant that places the region in every track at the first track's rate)
RECURSIVE DeleteRegionLoopFirstRate(_, _, _, _)
DeleteRegionLoopFirstRate(trs, start, end, indices) ==
    IF indices = <<>> THEN [tracks |-> trs, panicked |-> FALSE]
    ELSE LET track_idx == Head(indices)
         IN IF track_idx >= Len(trs)
            THEN DeleteRegionLoopFirstRate(trs, start, end, Tail(indices))
            ELSE LET track == trs[track_idx + 1]
                     start_sample == ToFrame(start, trs[1].sample_rate) * track.channels
                     end_sample == Min(ToFrame(end, trs[1].sample_rate) * track.channels,
                                       Len(track.audio_data))
                 IN IF start_sample >= Len(track.audio_data)
                    THEN DeleteRegionLoopFirstRate(trs, start, end, Tail(indices))
                    ELSE IF start_sample > end_sample
                         THEN [tracks |-> trs, panicked |-> TRUE]
                         ELSE DeleteRegionLoopFirstRate(
                                  [trs EXCEPT ![track_idx + 1].audio_data =
                                      SubSeq(track.audio_data, 1, start_sample)
                                      \o SubSeq(track.audio_data, end_sample + 1,
                                                Len(track.audio_data))],
                                  start, end, Tail(indices))

\* The loop of AudioEngine::delete_region over track_indices (indices counted
\* from 0). Vec::drain panics when the range starts after its end; the tracks
\* edited before that stay edited.
RECURSIVE DeleteRegionLoop(_, _, _, _)
DeleteRegionLoop(trs, start, end, indices) ==
    IF indices = <<>> THEN [tracks |-> trs, panicked |-> FALSE]
    ELSE LET track_idx == Head(indices)
         IN IF track_idx >= Len(trs)
            THEN DeleteRegionLoop(trs, start, end, Tail(indices))
            ELSE LET track == trs[track_idx + 1]
                     start_frame == ToFrame(start, track.sample_rate)
                     end_frame == ToFrame(end, track.sample_rate)
                     start_sample == start_frame * track.channels
                     end_sample == Min(end_frame * track.channels,
                                       Len(track.audio_data))
                 IN IF start_sample >= Len(track.audio_data)
                    THEN DeleteRegionLoop(trs, start, end, Tail(indices))
                    ELSE IF start_sample > end_sample
                         THEN [tracks |-> trs, panicked |-> TRUE]
                         ELSE DeleteRegionLoop(
                                  [trs EXCEPT ![track_idx + 1].audio_data =
                                      Drain(track.audio_data, start_sample, end_sample)],
                                  start, end, Tail(indices))

\* ------------------------------------------------------ FLAC encoder

\* The call's locals before the call
NoFlac == [pc |-> "idle", len |-> 0, channels |-> 1, compression_level |-> 0,
           block_size |-> 0, sample_offset |-> 0, frame_number |-> 0,
           writer |-> <<>>, result |-> "none", file |-> "none"]

\* (a variant that also turns away an input of exactly 16 samples per channel)
FlacRejectsSixteen(total_samples, compression_level) ==
    IF total_samples <= MinSamples THEN "TooShort"
    ELSE IF compression_level > MaxCompressionLevel THEN "InvalidConfig"
    ELSE "none"

\* encode_flac_with_level's two checks, in their order: the error it returns
FlacRejects(total_samples, compression_level) ==
    IF total_samples < MinSamples THEN "TooShort"
    ELSE IF compression_level > MaxCompressionLevel THEN "InvalidConfig"
    ELSE "none"

\* The match on the compression level
LevelBlockSize(compression_level) ==
    IF compression_level \in 0..2 THEN FastBlockSize ELSE DefaultBlockSize

\* block_size: the level's, .min(total_samples).max(16)
BlockSize(compression_level, total_samples) ==
    Max(Min(LevelBlockSize(compression_level), total_samples), MinBlockSize)

\* (a variant that forgets to divide the remaining samples by the channels)
CurrentBlockSizeInSamples(block_size, remaining, channels) ==
    Min(block_size, remaining)

\* current_block_size of the frame loop
CurrentBlockSize(block_size, remaining, channels) ==
    Min(block_size, remaining \div channels)

\* ----------------------------------------------- FLAC subframe coder

\* One call of a BitWriter method: the bits it appends, first bit first,
\* with the place of the call (what it writes, and the index of the loop it
\* is in, 0 outside a loop).
Field(what, at, bits) == [what |-> what, at |-> at, bits |-> bits]

\* BitWriter::write_bits(value, bits): the low `bits` bits of value, the
\* most significant first. The u64 of a negative i32 is its sign extension,
\* whose bit k is floor(value / 2^k) mod 2.
WriteBits(value, bits) == [i \in 1..bits |-> (value \div 2^(bits - i)) % 2]

\* BitWriter::write_unary(value): `value` zeros and a one
WriteUnary(value) == [i \in 1..(value + 1) |-> IF i <= value THEN 0 ELSE 1]

\* apply_fixed_predictor's `predicted` for samples[i], i counted from 0
Predicted(samples, order, i) ==
    CASE order = 0 -> 0
      [] order = 1 -> samples[i]
      [] order = 2 -> 2 * samples[i] - samples[i - 1]
      [] order = 3 -> 3 * samples[i] - 3 * samples[i - 1] + samples[i - 2]
      [] order = 4 -> 4 * samples[i] - 6 * samples[i - 1] + 4 * samples[i - 2]
                          - samples[i - 3]

\* apply_fixed_predictor: zeros for the warm-up samples, then the residuals
\* (an order above 4 returns at the first sample past the warm-up)
ApplyFixedPredictor(samples, order) ==
    IF order > 4
    THEN [n \in 1..Min(order, Len(samples)) |-> 0]
    ELSE [n \in 1..Len(samples) |->
             IF n - 1 < order THEN 0
             ELSE samples[n] - Predicted(samples, order, n - 1)]

\* i32::unsigned_abs
UnsignedAbs(x) == IF x < 0 THEN -x ELSE x

RECURSIVE SumOfAbs(_)
SumOfAbs(residual) ==
    IF residual = <<>> THEN 0
    ELSE UnsignedAbs(Head(residual)) + SumOfAbs(Tail(residual))

\* The while loop of calculate_rice_parameter
RECURSIVE RiceParameterLoop(_, _)
RiceParameterLoop(test_mean, param) ==
    IF test_mean > 0 /\ param < MaxRiceParam4Bit
    THEN LET shifted == test_mean \div 2
         IN RiceParameterLoop(shifted, IF shifted > 0 THEN param + 1 ELSE param)
    ELSE param

\* (a variant that estimates from the sum, not from the mean)
CalculateRiceParameterOfSum(residual) ==
    IF residual = <<>> THEN 0
    ELSE LET sum == SumOfAbs(residual)
         IN IF sum = 0 THEN 0
            ELSE LET param == RiceParameterLoop(sum, 0)
                 IN Min(IF param > 0 /\ sum < 2^(param - 1) THEN param - 1 ELSE param,
                        MaxRiceParam4Bit)

\* calculate_rice_parameter
CalculateRiceParameter(residual) ==
    IF residual = <<>> THEN 0
    ELSE LET sum == SumOfAbs(residual)
             mean == sum \div Len(residual)
         IN IF mean = 0 THEN 0
            ELSE LET param == RiceParameterLoop(mean, 0)
                 IN Min(IF param > 0 /\ mean < 2^(param - 1) THEN param - 1 ELSE param,
                        MaxRiceParam4Bit)

\* The zigzag fold of encode_rice_partition (the residuals of 16-bit samples
\* stay below 2^20 in size: the u32 shift does not overflow)
Folded(sample) ==
    IF sample >= 0 THEN sample * 2 ELSE (-(sample + 1)) * 2 + 1

\* encode_rice_partition: per residual the unary part, then the low bits
RECURSIVE EncodeRicePartition(_, _, _)
EncodeRicePartition(residual, rice_param, at) ==
    IF residual = <<>> THEN <<>>
    ELSE LET folded == Folded(Head(residual))
             msb == folded \div 2^rice_param
             lsb == folded % 2^rice_param
         IN <<Field("rice_msb", at, WriteUnary(msb))>>
            \o (IF rice_param > 0
                THEN <<Field("rice_lsb", at, WriteBits(lsb, rice_param))>>
                ELSE <<>>)
            \o EncodeRicePartition(Tail(residual), rice_param, at)

\* usize::trailing_zeros
RECURSIVE TrailingZeros(_)
TrailingZeros(n) ==
    IF n = 0 THEN 64
    ELSE IF n % 2 = 1 THEN 0 ELSE 1 + TrailingZeros(n \div 2)

\* encode_residual's match on the compression level
LevelPartitionOrder(compression_level, block_size) ==
    LET zeros == Min(TrailingZeros(block_size), 8)
    IN IF compression_level = 0 THEN 0
       ELSE IF compression_level \in 1..2 THEN Min(2, zeros)
       ELSE IF compression_level \in 3..5 THEN Min(4, zeros)
       ELSE Min(6, zeros)

\* The loop that lowers the partition order until a partition holds more
\* samples than the predictor order and at least 4
RECURSIVE ValidPartitionOrder(_, _, _)
ValidPartitionOrder(partition_order, block_size, predictor_order) ==
    IF partition_order > 0
    THEN LET partition_samples == block_size \div 2^partition_order
         IN IF partition_samples > predictor_order /\ partition_samples >= 4
            THEN partition_order
            ELSE ValidPartitionOrder(partition_order - 1, block_size, predictor_order)
    ELSE partition_order

RECURSIVE MaxOfAbs(_)
MaxOfAbs(residual) ==
    IF residual = <<>> THEN 0
    ELSE Max(UnsignedAbs(Head(residual)), MaxOfAbs(Tail(residual)))

\* The escape path's loop for bits_needed
RECURSIVE BitsNeededLoop(_, _)
BitsNeededLoop(bits_needed, max_val) ==
    IF bits_needed < 32 /\ 2^bits_needed <= max_val
    THEN BitsNeededLoop(bits_needed + 1, max_val)
    ELSE bits_needed

\* The escape path of encode_residual for one partition
EscapePartition(partition_residual, at) ==
    LET bits_needed == Min(Max(BitsNeededLoop(1, MaxOfAbs(partition_residual)) + 1, 1), 32)
    IN <<Field("escape", at, WriteBits(15, 4)),
         Field("raw_bits", at, WriteBits(bits_needed - 1, 5))>>
       \o [n \in 1..Len(partition_residual) |->
              Field("raw", at, WriteBits(partition_residual[n], bits_needed))]

\* The loop of encode_residual over the partitions, from partition_idx on
RECURSIVE EncodePartitions(_, _, _, _, _, _)
EncodePartitions(residual, sample_idx, partition_idx, num_partitions, default_partition_samples, predictor_order) ==
    IF partition_idx >= num_partitions THEN <<>>
    ELSE LET partition_samples ==
                 IF partition_idx = 0 THEN default_partition_samples - predictor_order
                 ELSE default_partition_samples
         IN IF partition_samples = 0
            THEN EncodePartitions(residual, sample_idx, partition_idx + 1,
                                  num_partitions, default_partition_samples,
                                  predictor_order)
            ELSE LET partition_residual ==
                         SubSeq(residual, sample_idx + 1, sample_idx + partition_samples)
                     rice_param == CalculateRiceParameter(partition_residual)
                 IN (IF rice_param > MaxRiceParam4Bit
                     THEN EscapePartition(partition_residual, partition_idx)
                     ELSE <<Field("rice_param", partition_idx, WriteBits(rice_param, 4))>>
                          \o EncodeRicePartition(partition_residual, rice_param,
                                                 partition_idx))
                    \o EncodePartitions(residual, sample_idx + partition_samples,
                                        partition_idx + 1, num_partitions,
                                        default_partition_samples, predictor_order)

\* encode_residual: the coding method, the partition order, the partitions
EncodeResidual(residual, predictor_order, block_size, compression_level) ==
    LET partition_order ==
            ValidPartitionOrder(LevelPartitionOrder(compression_level, block_size),
                                block_size, predictor_order)
        num_partitions == 2^partition_order
        default_partition_samples == block_size \div 2^partition_order
    IN <<Field("coding_method", 0, WriteBits(0, 2)),
         Field("partition_order", 0, WriteBits(partition_order, 4))>>
       \o EncodePartitions(residual, 0, 0, num_partitions, default_partition_samples,
                           predictor_order)

\* encode_subframe's match on the compression level
PredictorOrder(compression_level, block_size) ==
    IF compression_level = 0 THEN 0
    ELSE IF compression_level = 1 THEN (IF block_size >= 1 THEN 1 ELSE 0)
    ELSE IF compression_level = 2 THEN (IF block_size >= 2 THEN 2 ELSE 0)
    ELSE IF compression_level \in 3..4 THEN (IF block_size >= 3 THEN 3 ELSE 0)
    ELSE IF block_size >= 4 THEN 4 ELSE 0

\* encode_subframe: everything it writes for one channel's block
EncodeSubframe(samples, bits_per_sample, compression_level) ==
    LET block_size == Len(samples)
        predictor_order == PredictorOrder(compression_level, block_size)
    IN <<Field("zero", 0, WriteBits(0, 1)),
         Field("type", 0, IF predictor_order = 0 THEN WriteBits(1, 6)
                          ELSE WriteBits(8 + predictor_order, 6)),
         Field("wasted", 0, WriteBits(0, 1))>>
       \o (IF predictor_order = 0
           THEN [n \in 1..block_size |->
                    Field("verbatim", n - 1, WriteBits(samples[n], bits_per_sample))]
           ELSE [n \in 1..predictor_order |->
                    Field("warm_up", n - 1, WriteBits(samples[n], bits_per_sample))]
                \o EncodeResidual(
                       SubSeq(ApplyFixedPredictor(samples, predictor_order),
                              predictor_order + 1, block_size),
                       predictor_order, block_size, compression_level))

\* The call's arguments and output before the call
NoSubframe == [pc |-> "idle", samples |-> <<>>, compression_level |-> 0,
               writer |-> <<>>]

\* The 16-bit samples of the blocks: the ends of the range and the values
\* about zero for the short blocks, the ends and zero for the long ones; and
\* the blocks of twice the length whose second half repeats the first.
Int16Min == -(2^(BitsPerSample - 1))
Int16Max == 2^(BitsPerSample - 1) - 1
FineSamples == {Int16Min, -1, 0, 1, Int16Max}
CoarseSamples == {Int16Min, 0, Int16Max}
Blocks == UNION {[1..n -> FineSamples] : n \in 1..MaxFineBlock}
              \cup UNION {[1..n -> CoarseSamples] : n \in 1..MaxSubBlock}
              \cup {b \o b : b \in [1..MaxSubBlock -> CoarseSamples]}

\* ------------------------------------------------------------ actions

Init ==
    /\ tracks = <<>>
    /\ playback = <<>>
    /\ playback_sample_rate = <<>>
    /\ pc = "idle"
    /\ lock = "free"
    /\ pending = NoPending
    /\ aborted = FALSE
    /\ quiet = FALSE
    /\ last = [op |-> "new"]
    /\ pauseMark = <<>>
    /\ flac = NoFlac
    /\ subframe = NoSubframe

\* The owner thread is between facade calls and makes another one.
FacadeReady == pc = "idle" /\ ~aborted /\ ~quiet

\* AudioEngine::load_file, the decoder having produced a stream
LoadFile(sample_rate, channels, frames) ==
    /\ UNCHANGED <<flac, subframe>>
    /\ FacadeReady
    /\ LET mismatched_rate == MismatchedRate(tracks, sample_rate)
           new_track == [audio_data |-> DecodedData(frames, channels),
                         sample_rate |-> sample_rate,
                         channels |-> channels]
       IN /\ tracks' = Append(tracks, new_track)
          /\ last' = [op |-> "load", result |-> "ok",
                      ret |-> <<sample_rate, channels, mismatched_rate>>]
    /\ pauseMark' = <<>>
    /\ UNCHANGED <<playback, playback_sample_rate, pc, lock, pending, aborted, quiet>>

\* AudioEngine::load_file returning early: open, probe or decoder failed
LoadFileError ==
    /\ UNCHANGED <<flac, subframe>>
    /\ FacadeReady
    /\ last' = [op |-> "load", result |-> "err"]
    /\ pauseMark' = <<>>
    /\ UNCHANGED <<tracks, playback, playback_sample_rate, pc, lock, pending,
                   aborted, quiet>>

\* (a variant that empties the store and keeps the playback object)
ClearTracksKeepsPlayback ==
    /\ UNCHANGED <<flac, subframe>>
    /\ FacadeReady
    /\ tracks' = <<>>
    /\ last' = [op |-> "clear",
                from |-> IF playback = <<>> THEN "none"
                         ELSE IF playback[1].is_playing THEN "playing"
                         ELSE IF playback[1].is_paused THEN "paused"
                         ELSE "idle",
                rate |-> playback_sample_rate]
    /\ pauseMark' = <<>>
    /\ UNCHANGED <<playback, playback_sample_rate, pc, lock, pending, aborted, quiet>>

\* AudioEngine::clear_tracks: dropping the playback object closes its stream.
\* (last records the transport state the call found.)
ClearTracks ==
    /\ UNCHANGED <<flac, subframe>>
    /\ FacadeReady
    /\ tracks' = <<>>
    /\ playback' = <<>>
    /\ playback_sample_rate' = <<>>
    /\ last' = [op |-> "clear",
                from |-> IF playback = <<>> THEN "none"
                         ELSE IF playback[1].is_playing THEN "playing"
                         ELSE IF playback[1].is_paused THEN "paused"
                         ELSE "idle",
                rate |-> playback_sample_rate]
    /\ pauseMark' = <<>>
    /\ UNCHANGED <<pc, lock, pending, aborted, quiet>>

\* AudioEngine::delete_region
DeleteRegion(start_time, end_time, track_indices) ==
    /\ UNCHANGED <<flac, subframe>>
    /\ FacadeReady
    /\ LET r == DeleteRegionLoop(tracks, start_time, end_time, track_indices)
       IN /\ tracks' = r.tracks
          /\ aborted' = r.panicked
          /\ last' = [op |-> "delete",
                      result |-> IF r.panicked THEN "panic" ELSE "ok",
                      start |-> start_time, end |-> end_time,
                      indices |-> track_indices]
    /\ pauseMark' = <<>>
    /\ UNCHANGED <<playback, playback_sample_rate, pc, lock, pending, quiet>>

\* AudioEngine::export_audio: the range and the mode resolved, the mix made,
\* and each item handed to the writer the path's extension selects. The
\* writers (and the file system) are outside the engine: their outcome is
\* either. The engine's state is only read.
ExportAudio(start_time, end_time, channel_mode) ==
    /\ UNCHANGED <<flac, subframe>>
    /\ FacadeReady
    /\ LET duration == GetDuration(tracks)
           start == IF start_time = <<>> THEN 0 ELSE start_time[1]
           end == IF end_time = <<>> THEN duration ELSE end_time[1]
           mode == IF channel_mode = <<>> THEN "auto" ELSE channel_mode[1]
           export_items == ExportItems(tracks, start, end, mode)
       IN \E written \in BOOLEAN :
            last' = [op |-> "export", mode |-> mode, start |-> start, end |-> end,
                     items |-> export_items,
                     result |-> IF written THEN "ok" ELSE "err"]
    /\ pauseMark' = <<>>
    /\ UNCHANGED <<tracks, playback, playback_sample_rate, pc, lock, pending,
                   aborted, quiet>>

\* AudioEngine::get_waveform_for_range: one summary per track; the engine is
\* only read.
GetWaveformForRange(start_time, end_time, num_pixels) ==
    /\ UNCHANGED <<flac, subframe>>
    /\ FacadeReady
    /\ last' = [op |-> "waveform", start |-> start_time, end |-> end_time,
                num_pixels |-> num_pixels,
                ret |-> IF tracks = <<>> \/ num_pixels = 0 THEN <<>>
                        ELSE [k \in 1..Len(tracks) |->
                                 GetTrackWaveform(tracks[k], start_time, end_time,
                                                  num_pixels)]]
    /\ pauseMark' = <<>>
    /\ UNCHANGED <<tracks, playback, playback_sample_rate, pc, lock, pending,
                   aborted, quiet>>

\* export_to_flac_with_level entering encode_flac_with_level on `len`
\* interleaved samples: the two checks, then the signature and the streaminfo.
\* (The sample rate is only copied into the headers.)
ExportToFlacWithLevel(len, channels, compression_level) ==
    /\ flac.pc = "idle"
    /\ LET total_samples == len \div channels
           error == FlacRejects(total_samples, compression_level)
           block_size == BlockSize(compression_level, total_samples)
       IN flac' = IF error # "none"
                  THEN [NoFlac EXCEPT !.pc = "done", !.len = len,
                                      !.channels = channels,
                                      !.compression_level = compression_level,
                                      !.result = error]
                  ELSE [NoFlac EXCEPT !.pc = "frames", !.len = len,
                                      !.channels = channels,
                                      !.compression_level = compression_level,
                                      !.block_size = block_size,
                                      !.writer =
                                          <<[kind |-> "signature"],
                                            [kind |-> "streaminfo",
                                             min_block_size |-> block_size,
                                             max_block_size |-> block_size,
                                             channels |-> channels,
                                             total_samples |-> total_samples]>>]
    /\ UNCHANGED engineVars
    /\ UNCHANGED subframe

\* One test of the frame loop's condition and, if it holds, one iteration:
\* encode_frame (which returns Ok whatever the block) appends a frame.
EncodeFrames ==
    /\ flac.pc = "frames"
    /\ LET remaining == flac.len - flac.sample_offset
           current_block_size ==
               CurrentBlockSize(flac.block_size, remaining, flac.channels)
       IN flac' = IF flac.sample_offset < flac.len /\ current_block_size # 0
                  THEN [flac EXCEPT
                           !.writer = Append(@, [kind |-> "frame",
                                                 frame_number |-> flac.frame_number,
                                                 block_size |-> current_block_size,
                                                 sample_offset |-> flac.sample_offset]),
                           !.sample_offset = @ + current_block_size * flac.channels,
                           !.frame_number = @ + 1]
                  ELSE [flac EXCEPT !.pc = "encoded"]
    /\ UNCHANGED engineVars
    /\ UNCHANGED subframe

\* encode_flac_with_level returns Ok(bytes); export_to_flac_with_level creates
\* the file and writes them, which the file system may refuse.
WriteFlacFile ==
    /\ flac.pc = "encoded"
    /\ \E io_ok \in BOOLEAN :
          flac' = [flac EXCEPT !.pc = "done",
                               !.result = IF io_ok THEN "ok" ELSE "io",
                               !.file = IF io_ok THEN "written" ELSE "none"]
    /\ UNCHANGED engineVars
    /\ UNCHANGED subframe

\* encode_frame's call of encode_subframe for one channel: the arguments
\* stand in subframe, and the call writes the subframe (it returns Ok
\* whatever the block).
EncodeSubframeCall ==
    /\ subframe.pc = "call"
    /\ subframe' = [subframe EXCEPT
                       !.pc = "done",
                       !.writer = EncodeSubframe(subframe.samples, BitsPerSample,
                                                 subframe.compression_level)]
    /\ UNCHANGED engineVars
    /\ UNCHANGED flac

\* (a variant that resumes a paused playback whatever the arguments)
ShouldResumeWheneverPaused(start_time, end_time) == EngineIsPaused

\* play's test for the resume of a paused playback
ShouldResume(start_time, end_time) ==
    start_time = <<>> /\ end_time = <<>> /\ EngineIsPaused

\* AudioEngine::play up to the call of AudioPlayback::play: either the resume
\* of a paused playback, or the mix and the stream to submit it to.
EnginePlay(start_time, end_time) ==
    /\ UNCHANGED <<flac, subframe>>
    /\ FacadeReady
    /\ lock = "free"
    /\ IF ShouldResume(start_time, end_time)
       THEN /\ playback' = <<Resume(playback[1])>>
            /\ last' = [op |-> "play", path |-> "resume", result |-> "ok",
                        built |-> FALSE, args |-> <<start_time, end_time>>]
            /\ pauseMark' = IF last.op = "pause" THEN pauseMark ELSE <<>>
            /\ UNCHANGED <<tracks, playback_sample_rate, pc, lock, pending,
                           aborted, quiet>>
       ELSE LET duration == GetDuration(tracks)
                start == IF start_time = <<>> THEN 0 ELSE start_time[1]
                end == IF end_time = <<>> THEN duration ELSE end_time[1]
                mix == MixTracksForPlayback(tracks, start, end)
                needs_new_playback ==
                    NeedsNewPlayback(playback, playback_sample_rate, mix.sample_rate)
            IN /\ pauseMark' = <<>>
               /\ \E device_ok \in IF needs_new_playback THEN BOOLEAN ELSE {TRUE} :
                    IF device_ok
                    THEN /\ playback' = IF needs_new_playback
                                        THEN <<NewPlayback(mix.sample_rate, mix.channels)>>
                                        ELSE playback
                         /\ playback_sample_rate' = IF needs_new_playback
                                                    THEN <<mix.sample_rate>>
                                                    ELSE playback_sample_rate
                         /\ pc' = "play"
                         /\ pending' = [buffer |-> mix.data, offset |-> start,
                                        start_time |-> start_time,
                                        end_time |-> end_time]
                         /\ last' = [op |-> "play", path |-> "fresh",
                                     result |-> "pending",
                                     built |-> needs_new_playback]
                         /\ UNCHANGED <<tracks, lock, aborted, quiet>>
                    ELSE /\ last' = [op |-> "play", path |-> "fresh", result |-> "err",
                                     built |-> needs_new_playback]
                         /\ UNCHANGED <<tracks, playback, playback_sample_rate, pc,
                                        lock, pending, aborted, quiet>>

\* AudioPlayback::play, one assignment at a time under the state's mutex
PlayLockBuffer ==
    /\ UNCHANGED <<flac, subframe>>
    /\ pc = "play"
    /\ lock = "free"
    /\ playback' = <<[playback[1] EXCEPT !.buffer = pending.buffer]>>
    /\ lock' = IF PlayGuardHeld THEN "facade" ELSE "free"
    /\ pc' = "play_position"
    /\ UNCHANGED <<tracks, playback_sample_rate, pending, aborted, quiet, last,
                   pauseMark>>

PlayPosition ==
    /\ UNCHANGED <<flac, subframe>>
    /\ pc = "play_position"
    /\ playback' = <<[playback[1] EXCEPT !.position = 0]>>
    /\ pc' = "play_is_playing"
    /\ UNCHANGED <<tracks, playback_sample_rate, lock, pending, aborted, quiet,
                   last, pauseMark>>

PlayIsPlaying ==
    /\ UNCHANGED <<flac, subframe>>
    /\ pc = "play_is_playing"
    /\ playback' = <<[playback[1] EXCEPT !.is_playing = TRUE]>>
    /\ pc' = "play_is_paused"
    /\ UNCHANGED <<tracks, playback_sample_rate, lock, pending, aborted, quiet,
                   last, pauseMark>>

PlayIsPaused ==
    /\ UNCHANGED <<flac, subframe>>
    /\ pc = "play_is_paused"
    /\ playback' = <<[playback[1] EXCEPT !.is_paused = FALSE]>>
    /\ pc' = "play_offset"
    /\ UNCHANGED <<tracks, playback_sample_rate, lock, pending, aborted, quiet,
                   last, pauseMark>>

PlayOffsetUnlock ==
    /\ UNCHANGED <<flac, subframe>>
    /\ pc = "play_offset"
    /\ playback' = <<[playback[1] EXCEPT !.start_time_offset = pending.offset]>>
    /\ lock' = "free"
    /\ pc' = "idle"
    /\ pending' = NoPending
    /\ last' = [last EXCEPT !.result = "ok"]
    /\ UNCHANGED <<tracks, playback_sample_rate, aborted, quiet, pauseMark>>

\* AudioEngine::pause
EnginePause ==
    /\ UNCHANGED <<flac, subframe>>
    /\ FacadeReady
    /\ lock = "free"
    /\ playback' = IF playback = <<>> THEN playback ELSE <<Pause(playback[1])>>
    /\ last' = [op |-> "pause"]
    /\ pauseMark' = IF playback = <<>> THEN <<>>
                    ELSE <<[pos |-> playback[1].position,
                           buffer |-> playback[1].buffer, callbacks |-> 0]>>
    /\ UNCHANGED <<tracks, playback_sample_rate, pc, lock, pending, aborted, quiet>>

\* AudioEngine::stop
EngineStop ==
    /\ UNCHANGED <<flac, subframe>>
    /\ FacadeReady
    /\ lock = "free"
    /\ playback' = IF playback = <<>> THEN playback ELSE <<Stop(playback[1])>>
    /\ last' = [op |-> "stop", afterStop |-> last.op = "stop"]
    /\ pauseMark' = <<>>
    /\ UNCHANGED <<tracks, playback_sample_rate, pc, lock, pending, aborted, quiet>>

\* AudioEngine::set_playback_position
SetPlaybackPosition(position) ==
    /\ UNCHANGED <<flac, subframe>>
    /\ FacadeReady
    /\ lock = "free"
    /\ playback' = IF playback = <<>> THEN playback
                   ELSE <<SetPosition(playback[1], position)>>
    /\ last' = [op |-> "set_position", position |-> position]
    /\ pauseMark' = <<>>
    /\ UNCHANGED <<tracks, playback_sample_rate, pc, lock, pending, aborted, quiet>>

\* The output stream's data callback on a block of n samples; it runs as long
\* as the playback object (and with it the stream) lives.
Callback(n) ==
    /\ UNCHANGED <<flac, subframe>>
    /\ playback # <<>>
    /\ lock = "free"
    /\ playback' = <<CallbackBlock(playback[1], n).st>>
    /\ pauseMark' = IF pauseMark # <<>> /\ last.op = "pause"
                    THEN <<[pauseMark[1] EXCEPT !.callbacks = 1]>>
                    ELSE <<>>
    /\ UNCHANGED <<tracks, playback_sample_rate, pc, lock, pending, aborted,
                   quiet, last>>

\* The owner stops calling the facade; the device keeps pulling blocks.
Quiesce ==
    /\ UNCHANGED <<flac, subframe>>
    /\ pc = "idle"
    /\ ~quiet
    /\ quiet' = TRUE
    /\ UNCHANGED <<tracks, playback, playback_sample_rate, pc, lock, pending,
                   aborted, last, pauseMark>>

TrackIndices == 0..MaxTracks
IndexLists == UNION {[1..n -> TrackIndices] : n \in 0..MaxIndices}

Load == \E sample_rate \in Rates, channels \in ChannelCounts, frames \in 0..MaxFrames :
            Len(tracks) < MaxTracks /\ LoadFile(sample_rate, channels, frames)
StoreLoad == \E sample_rate \in Rates, channels \in ChannelCounts, frames \in 0..MaxFrames :
            Len(tracks) < MaxStoreTracks /\ LoadFile(sample_rate, channels, frames)
DeleteOne == \E start_time \in Times, end_time \in Times, i \in 0..MaxStoreTracks :
            DeleteRegion(start_time, end_time, <<i>>)
Delete == \E start_time \in Times, end_time \in Times, track_indices \in IndexLists :
            DeleteRegion(start_time, end_time, track_indices)
ChannelModes == {"auto", "stereo", "mono", "split", "mono_to_stereo"}
\* Option<String>: <<>> is None
OptModes == {<<>>} \cup {<<m>> : m \in ChannelModes}
Export == \E start_time \in OptTimes, end_time \in OptTimes, channel_mode \in OptModes :
            ExportAudio(start_time, end_time, channel_mode)
PairLoad == \E sample_rate \in Rates, channels \in ChannelCounts, frames \in 0..MaxFrames :
            Len(tracks) < MaxPairTracks /\ LoadFile(sample_rate, channels, frames)
ExportPairs == \E start_time \in Times, end_time \in Times :
            ExportAudio(<<start_time>>, <<end_time>>, <<"mono_to_stereo">>)
Waveform == \E start_time \in Times, end_time \in Times, num_pixels \in 0..MaxPixels :
            GetWaveformForRange(start_time, end_time, num_pixels)
ExportFlac ==
    /\ flac.pc = "idle"
    /\ \E len \in 0..MaxSamples, channels \in ChannelCounts,
          compression_level \in 0..MaxLevel :
            ExportToFlacWithLevel(len, channels, compression_level)
Play == \E start_time \in OptTimes, end_time \in OptTimes :
            EnginePlay(start_time, end_time)
Seek == \E position \in Times : SetPlaybackPosition(position)
DeviceCallback == \E n \in 1..MaxBlock : Callback(n)

\* The engine and its playback object: transport calls, loads and clears by
\* the owner thread, interleaved with the device's callback.
Next ==
    \/ Load
    \/ ClearTracks
    \/ Play
    \/ PlayLockBuffer
    \/ PlayPosition
    \/ PlayIsPlaying
    \/ PlayIsPaused
    \/ PlayOffsetUnlock
    \/ EnginePause
    \/ EngineStop
    \/ Seek
    \/ DeviceCallback

Spec == Init /\ [][Next]_vars

\* The track store alone: loads, clears and region deletes.
NextStore ==
    \/ Load
    \/ LoadFileError
    \/ ClearTracks
    \/ Delete

SpecStore == Init /\ [][NextStore]_vars

\* A larger store, edited one track at a time.
NextLoad ==
    \/ StoreLoad
    \/ LoadFileError
    \/ ClearTracks
    \/ DeleteOne

SpecLoad == Init /\ [][NextLoad]_vars

\* The track store and the export mixes of every mode.
NextMix ==
    \/ Load
    \/ ClearTracks
    \/ Export

SpecMix == Init /\ [][NextMix]_vars

\* A store of up to two pairs of tracks, exported as mono pairs.
NextPairs ==
    \/ PairLoad
    \/ ClearTracks
    \/ ExportPairs

SpecPairs == Init /\ [][NextPairs]_vars

\* The track store and the waveform summaries the UI asks for.
NextWave ==
    \/ Load
    \/ ClearTracks
    \/ DeleteOne
    \/ Waveform

SpecWave == Init /\ [][NextWave]_vars

\* One call of the FLAC export on any input.
NextFlac ==
    \/ ExportFlac
    \/ EncodeFrames
    \/ WriteFlacFile

SpecFlac == Init /\ [][NextFlac]_vars

\* The same call, the encoder's thread running on.
SpecFlacLive == SpecFlac /\ WF_vars(EncodeFrames) /\ WF_vars(WriteFlacFile)

\* encode_subframe about to be called on a block of one channel's samples,
\* at a level encode_flac_with_level lets through
InitSubframe ==
    /\ tracks = <<>>
    /\ playback = <<>>
    /\ playback_sample_rate = <<>>
    /\ pc = "idle"
    /\ lock = "free"
    /\ pending = NoPending
    /\ aborted = FALSE
    /\ quiet = FALSE
    /\ last = [op |-> "new"]
    /\ pauseMark = <<>>
    /\ flac = NoFlac
    /\ subframe \in {[pc |-> "call", samples |-> samples,
                      compression_level |-> compression_level, writer |-> <<>>] :
                        samples \in Blocks,
                        compression_level \in 0..MaxCompressionLevel}

NextSubframe == EncodeSubframeCall

\* One call of encode_subframe on any block.
SpecSubframe == InitSubframe /\ [][NextSubframe]_vars

\* The engine whose owner may stop calling it, on a device that keeps pulling
\* blocks of at least one sample from the stream as long as the stream lives.
NextLive == Next \/ Quiesce

SpecLive == Init /\ [][NextLive]_vars /\ WF_vars(DeviceCallback)

\* ------------------------------------------------------------- claims

HasPlayback == playback # <<>>
\* No critical section on the playback state is in progress: the states the
\* facade and the callback can observe.
Observable == lock = "free"
PlayMid == {"play_position", "play_is_playing", "play_is_paused", "play_offset"}
Zeros(n) == [i \in 1..n |-> 0]

\* C1: in every state that play, pause, resume, stop, set_position and the
\* callback can leave behind, is_playing and is_paused are not both true.
C1_NeverPlayingAndPaused ==
    (HasPlayback /\ Observable) =>
        ~(playback[1].is_playing /\ playback[1].is_paused)

\* A playback paused in the middle of its buffer.
C1_Witness ==
    /\ HasPlayback /\ Observable
    /\ last.op = "pause"
    /\ playback[1].is_paused /\ ~playback[1].is_playing
    /\ playback[1].position > 0
    /\ playback[1].position < Len(playback[1].buffer)

\* C2: position <= len(buffer) in every observable state, also after a seek
\* beyond the buffer and after play replaced the buffer by a shorter one.
C2_PositionWithinBuffer ==
    (HasPlayback /\ Observable) =>
        playback[1].position <= Len(playback[1].buffer)

\* A seek whose sample position lies beyond the buffer was clamped to its end.
C2_Witness ==
    /\ HasPlayback /\ Observable
    /\ last.op = "set_position"
    /\ Len(playback[1].buffer) > 0
    /\ ToFrame(last.position, playback[1].sample_rate) * playback[1].channels
           > Len(playback[1].buffer)
    /\ playback[1].position = Len(playback[1].buffer)

\* C3: from the return of pause to the return of the following resume, with
\* any number of callbacks in between, position (and buffer) stay what they
\* were; a callback on a paused playback writes only zeros and changes nothing.
C3_PausePreservesPosition ==
    /\ pauseMark # <<>> =>
          /\ HasPlayback
          /\ playback[1].position = pauseMark[1].pos
          /\ playback[1].buffer = pauseMark[1].buffer
    /\ (HasPlayback /\ Observable /\ playback[1].is_paused) =>
          \A n \in 1..MaxBlock :
              CallbackBlock(playback[1], n) = [st |-> playback[1], out |-> Zeros(n)]

\* play() with no arguments resumed a playback that was paused in the middle
\* of its buffer, callbacks having run while it was paused.
C3_Witness ==
    /\ HasPlayback
    /\ last.op = "play" /\ last.path = "resume"
    /\ pauseMark # <<>> /\ pauseMark[1].callbacks = 1
    /\ playback[1].is_playing
    /\ playback[1].position > 0
    /\ playback[1].position < Len(playback[1].buffer)

\* C4: whenever the callback can take the lock, AudioPlayback::play is not
\* between its assignments, and position indexes within the buffer it sees.
C4_PlayIsOneCriticalSection ==
    (HasPlayback /\ lock = "free") =>
        /\ pc \notin PlayMid
        /\ playback[1].position <= Len(playback[1].buffer)

\* Inside play, the new and shorter buffer stands with the old position while
\* the lock is held.
C4_Witness ==
    /\ HasPlayback
    /\ pc = "play_position" /\ lock = "facade"
    /\ playback[1].position > Len(playback[1].buffer)

\* C5: once the owner makes no further call, a playing playback reaches the
\* end of its buffer with is_playing false (what every later is_playing query
\* returns), and is_playing rises again only by play or resume.
C5_NaturalEnd ==
    /\ (quiet /\ HasPlayback /\ playback[1].is_playing) ~>
          [](/\ HasPlayback
             /\ playback[1].position = Len(playback[1].buffer)
             /\ ~EngineIsPlaying)
    /\ [][(HasPlayback /\ HasPlayback' /\ ~playback[1].is_playing
              /\ playback'[1].is_playing) =>
            \/ pc = "play_is_playing"
            \/ (last'.op = "play" /\ last'.path = "resume" /\ playback[1].is_paused)]_vars

\* The owner has gone quiet and the callback has played a buffer of at least
\* two samples to its end.
C5_Witness ==
    /\ quiet /\ HasPlayback
    /\ Len(playback[1].buffer) >= 2
    /\ playback[1].position = Len(playback[1].buffer)
    /\ ~playback[1].is_playing
    /\ last.op = "play" /\ last.path = "fresh"

\* The state stop leaves, for as long as stop is the owner's last call.
C6_StopResets ==
    (last.op = "stop" /\ HasPlayback) =>
        /\ ~playback[1].is_playing
        /\ ~playback[1].is_paused
        /\ playback[1].position = 0
        /\ playback[1].start_time_offset = 0
        /\ GetPosition(playback[1])[1] = 0

\* C6: stop leaves is_playing and is_paused false, position and
\* start_time_offset 0 (transport time 0), whatever the state before and
\* whatever callbacks follow; a second stop changes nothing.
C6_StopIsIdempotentReset ==
    /\ []C6_StopResets
    /\ [][(last.op = "stop" /\ EngineStop) => playback' = playback]_vars

\* A second stop, with a buffer loaded, has returned.
C6_Witness ==
    /\ HasPlayback
    /\ last.op = "stop" /\ last.afterStop
    /\ Len(playback[1].buffer) > 0

\* A step in which the owner calls AudioEngine::play
PlayCall == pc = "idle" /\ last'.op = "play" /\ (last' # last \/ pc' # pc)

\* C7: play with both arguments absent on a paused playback only resumes:
\* nothing is submitted, and buffer, position, start_time_offset stay; every
\* other play that returns success submits the fresh mix of the requested
\* range, with position 0 and start_time_offset = start or 0.
C7_PlayResumesOrSubmits ==
    /\ [][(PlayCall /\ last'.result # "err") =>
            LET resumed == last'.path = "resume"
                start_time == IF resumed THEN last'.args[1] ELSE pending'.start_time
                end_time == IF resumed THEN last'.args[2] ELSE pending'.end_time
                start == IF start_time = <<>> THEN 0 ELSE start_time[1]
                end == IF end_time = <<>> THEN GetDuration(tracks) ELSE end_time[1]
            IN IF start_time = <<>> /\ end_time = <<>>
                      /\ HasPlayback /\ playback[1].is_paused
               THEN /\ resumed
                    /\ pc' = "idle" /\ pending' = pending
                    /\ playback'[1].buffer = playback[1].buffer
                    /\ playback'[1].position = playback[1].position
                    /\ playback'[1].start_time_offset = playback[1].start_time_offset
               ELSE /\ ~resumed
                    /\ pc' = "play"
                    /\ pending'.buffer = MixTracksForPlayback(tracks, start, end).data
                    /\ pending'.offset = start]_vars
    /\ [][PlayOffsetUnlock =>
            /\ playback'[1].buffer = pending.buffer
            /\ playback'[1].position = 0
            /\ playback'[1].start_time_offset = pending.offset
            /\ last'.result = "ok"]_vars

\* play() resumed, in the middle of its buffer, a playback that had been
\* started at a non-zero start time.
C7_Witness ==
    /\ HasPlayback /\ pc = "idle"
    /\ last.op = "play" /\ last.path = "resume"
    /\ playback[1].is_playing
    /\ playback[1].start_time_offset > 0
    /\ playback[1].position > 0

\* playback_sample_rate is the rate the current object was opened with.
C8_RateRecorded ==
    HasPlayback => playback_sample_rate = <<playback[1].sample_rate>>

\* C8: play opens a new playback object exactly when there is none or the
\* mix's sample rate differs from the rate the current one was opened with;
\* otherwise the object is the one there was.
C8_RebuildIffRateDiffers ==
    /\ []C8_RateRecorded
    /\ [][PlayCall =>
            IF last'.path = "resume"
            THEN /\ ~last'.built
                 /\ playback'[1].sample_rate = playback[1].sample_rate
                 /\ playback'[1].channels = playback[1].channels
            ELSE \A start \in Times, end \in Times :
                    LET mix == MixTracksForPlayback(tracks, start, end)
                    IN /\ last'.built <=>
                             (~HasPlayback \/ playback[1].sample_rate # mix.sample_rate)
                       /\ (last'.built /\ last'.result # "err") =>
                             playback' = <<NewPlayback(mix.sample_rate, mix.channels)>>
                       /\ (~last'.built \/ last'.result = "err") =>
                             playback' = playback]_vars

\* A play reused the stream of an earlier play after the store had changed,
\* the rate being the same.
C8_Witness ==
    /\ HasPlayback /\ pc = "play"
    /\ last.op = "play" /\ ~last.built
    /\ Len(tracks) = 2
    /\ playback[1].sample_rate = tracks[1].sample_rate
    /\ playback[1].channels # OutputChannels(tracks)

\* C9: a successful load appends one track with the decoded stream's rate and
\* channels and leaves the others as they were; it reports the first track's
\* rate iff the store was not empty and that rate differs from the new one;
\* the first track's rate stays the same as long as the store is not cleared.
C9_LoadAppendsAndReports ==
    /\ [][last'.op = "load" =>
            \A sample_rate \in Rates, channels \in ChannelCounts, frames \in 0..MaxFrames :
                LoadFile(sample_rate, channels, frames) =>
                    /\ tracks' = Append(tracks, [audio_data |-> DecodedData(frames, channels),
                                                 sample_rate |-> sample_rate,
                                                 channels |-> channels])
                    /\ last'.result = "ok"
                    /\ last'.ret = <<sample_rate, channels,
                                     IF tracks # <<>> /\ tracks[1].sample_rate # sample_rate
                                     THEN <<tracks[1].sample_rate>> ELSE <<>>>>]_vars
    /\ [][(tracks # <<>> /\ tracks' # <<>>) =>
            tracks'[1].sample_rate = tracks[1].sample_rate]_vars

\* A third track was loaded at the second track's rate, which is not the
\* first's: the first track's rate was reported.
C9_Witness ==
    /\ last.op = "load" /\ last.result = "ok"
    /\ Len(tracks) = 3
    /\ tracks[2].sample_rate = tracks[3].sample_rate
    /\ tracks[1].sample_rate # tracks[3].sample_rate
    /\ last.ret = <<tracks[3].sample_rate, tracks[3].channels, <<tracks[1].sample_rate>>>>

\* The tracks a list of indices (counted from 0) names
Listed(trs, indices) ==
    {k \in 1..Len(trs) : \E j \in 1..Len(indices) : indices[j] = k - 1}

\* A track named more than once by the list
NamedTwice(trs, indices) ==
    \E i \in 1..Len(indices), j \in 1..Len(indices) :
        i # j /\ indices[i] = indices[j] /\ indices[i] < Len(trs)

\* What delete_region is to leave of track k: the track as it was when it is
\* not listed or starts past its end, else without [start_sample, end_sample).
RegionRemoved(trs, start, end, indices, k) ==
    LET track == trs[k]
        n == Len(track.audio_data)
        start_sample == ((start * track.sample_rate) \div TimeDen) * track.channels
        end_frame_sample == ((end * track.sample_rate) \div TimeDen) * track.channels
        end_sample == IF end_frame_sample < n THEN end_frame_sample ELSE n
    IN IF k \notin Listed(trs, indices) \/ start_sample >= n
       THEN track
       ELSE [track EXCEPT !.audio_data =
                [i \in 1..(n - (end_sample - start_sample)) |->
                    IF i <= start_sample THEN track.audio_data[i]
                    ELSE track.audio_data[i + (end_sample - start_sample)]]]

DeleteStep ==
    last'.op = "delete" /\ DeleteRegion(last'.start, last'.end, last'.indices)

\* C10 as stated: for start_s <= end_s, whatever the index list, every listed
\* track in range loses exactly [start_sample, min(end_sample, len)), every
\* other track is untouched, and the call returns success.
C10_AsStated ==
    [][(DeleteStep /\ last'.start <= last'.end) =>
          /\ last'.result = "ok"
          /\ Len(tracks') = Len(tracks)
          /\ \A k \in 1..Len(tracks) :
                tracks'[k] = RegionRemoved(tracks, last'.start, last'.end,
                                           last'.indices, k)]_vars

\* C10, amended: the same for index lists that name no track more than once.
C10_DeleteRegionPerTrack ==
    [][(DeleteStep /\ last'.start <= last'.end
            /\ ~NamedTwice(tracks, last'.indices)) =>
          /\ last'.result = "ok"
          /\ Len(tracks') = Len(tracks)
          /\ \A k \in 1..Len(tracks) :
                tracks'[k] = RegionRemoved(tracks, last'.start, last'.end,
                                           last'.indices, k)]_vars

\* Both tracks were listed for a region that starts at the head of the first
\* and past the end of the second: the first lost samples, the second none.
C10_Witness ==
    /\ last.op = "delete" /\ last.result = "ok"
    /\ last.start < last.end
    /\ last.indices = <<0, 1>>
    /\ Len(tracks) = 2
    /\ tracks[1].sample_rate # tracks[2].sample_rate
    /\ ToFrame(last.start, tracks[1].sample_rate) = 0
    /\ ToFrame(last.end, tracks[1].sample_rate) > 0
    /\ tracks[1].audio_data # <<>>
    /\ tracks[1].audio_data[1] # 1
    /\ tracks[2].audio_data # <<>>
    /\ ToFrame(last.start, tracks[2].sample_rate) * tracks[2].channels
           >= Len(tracks[2].audio_data)

\* C11: every track's buffer holds whole frames, len(buffer) % channels = 0,
\* in every state that loads and delete_region calls (any times, any index
\* list, also one naming a track twice) lead to.
C11_WholeFrames ==
    \A k \in 1..Len(tracks) :
        Len(tracks[k].audio_data) % tracks[k].channels = 0

\* delete_region, its list naming a stereo track twice, removed the track's
\* second frame and left the first.
C11_Witness ==
    /\ last.op = "delete" /\ last.result = "ok"
    /\ last.indices = <<0, 0>>
    /\ last.start < last.end
    /\ Len(tracks) = 1
    /\ tracks[1].channels = 2
    /\ ToFrame(last.start, tracks[1].sample_rate) = 1
    /\ tracks[1].audio_data = <<1, 2>>

\* Every track the list names lies in the store and starts at or past its end.
EveryRequestedOutOfBounds(trs, start, indices) ==
    /\ Listed(trs, indices) # {}
    /\ \A k \in Listed(trs, indices) :
          ToFrame(start, trs[k].sample_rate) * trs[k].channels
              >= Len(trs[k].audio_data)

\* C12: delete_region returns an OutOfBounds error exactly when the start
\* sample is past the end for every requested track, and success when at
\* least one requested track is in range (for a region with start <= end).
C12_OutOfBoundsReported ==
    [][(DeleteStep /\ last'.start <= last'.end /\ Listed(tracks, last'.indices) # {}) =>
          IF EveryRequestedOutOfBounds(tracks, last'.start, last'.indices)
          THEN last'.result = "err"
          ELSE last'.result = "ok"]_vars

\* The frames of the range [start, end) at a rate
RangeFrames(start, end, rate) ==
    LET first == (start * rate) \div TimeDen
        past == (end * rate) \div TimeDen
    IN IF past > first THEN past - first ELSE 0

\* What track is to add to channel ch of output frame f of a mix of the range:
\* its own frame f of the range (a mono track on every channel), and zero from
\* its last frame or the range's end at its own rate on.
Heard(track, start, end, f, ch) ==
    LET frame == ((start * track.sample_rate) \div TimeDen) + f
    IN IF f >= RangeFrames(start, end, track.sample_rate)
          \/ frame >= Len(track.audio_data) \div track.channels
       THEN 0
       ELSE IF track.channels = 2 THEN track.audio_data[2 * frame + ch + 1]
            ELSE track.audio_data[frame + 1]

RECURSIVE HeardSum(_, _, _, _, _, _)
HeardSum(trs, k, start, end, f, ch) ==
    IF k = 0 THEN 0
    ELSE HeardSum(trs, k - 1, start, end, f, ch) + Heard(trs[k], start, end, f, ch)

Limited(x) == IF x > FullScale THEN FullScale ELSE IF x < -FullScale THEN -FullScale ELSE x

AnyStereo(trs) == \E k \in 1..Len(trs) : trs[k].channels = 2

\* An export in the given mode has returned, of a range that holds at least
\* one frame at the first track's rate.
Exported(mode) ==
    /\ last.op = "export" /\ last.mode = mode
    /\ tracks # <<>>
    /\ RangeFrames(last.start, last.end, tracks[1].sample_rate) > 0

\* C13: the auto mix of a non-empty store over a non-empty range has 2
\* channels iff a track is stereo, else 1, and total_frames * channels
\* samples whatever the tracks' lengths; each sample is the clamped sum of
\* what the tracks hold at that frame, zero for a track that has ended.
C13_AutoMix ==
    Exported("auto") =>
        LET total_frames == RangeFrames(last.start, last.end, tracks[1].sample_rate)
            output_channels == IF AnyStereo(tracks) THEN 2 ELSE 1
            item == last.items[1]
        IN /\ Len(last.items) = 1
           /\ item.channels = output_channels
           /\ item.sample_rate = tracks[1].sample_rate
           /\ Len(item.data) = total_frames * output_channels
           /\ \A f \in 0..(total_frames - 1), ch \in 0..(output_channels - 1) :
                 item.data[f * output_channels + ch + 1] =
                     Limited(HeardSum(tracks, Len(tracks), last.start, last.end, f, ch))

\* A mono track of one frame and a stereo track of two were mixed over two
\* frames: the second output frame is the stereo track's alone.
C13_Witness ==
    /\ Exported("auto")
    /\ Len(tracks) = 2
    /\ tracks[1].channels = 1 /\ Len(tracks[1].audio_data) = 1
    /\ tracks[2].channels = 2 /\ Len(tracks[2].audio_data) = 4
    /\ last.start = 0
    /\ Len(last.items[1].data) = 4
    /\ last.items[1].data[1] = 2
    /\ last.items[1].data[3] = tracks[2].audio_data[3]
    /\ last.items[1].data[4] = tracks[2].audio_data[4]

\* C14: in channel mode "stereo" the export mix has 2 output channels, also
\* when every track of the store is mono, and each mono track's sample is
\* added to both L and R of its output frame.
C14_StereoModeTwoChannels ==
    Exported("stereo") =>
        LET total_frames == RangeFrames(last.start, last.end, tracks[1].sample_rate)
            item == last.items[1]
        IN /\ Len(last.items) = 1
           /\ item.channels = 2
           /\ Len(item.data) = total_frames * 2
           /\ \A f \in 0..(total_frames - 1), ch \in 0..1 :
                 item.data[f * 2 + ch + 1] =
                     Limited(HeardSum(tracks, Len(tracks), last.start, last.end, f, ch))

\* An export has returned, of a non-empty store and a range that holds no
\* frame at the first track's rate.
ExportedNoFrames ==
    /\ last.op = "export"
    /\ tracks # <<>>
    /\ RangeFrames(last.start, last.end, tracks[1].sample_rate) = 0

\* The channel count a mode's mix of a non-empty range reports
PolicyChannels(trs, mode) ==
    CASE mode \in {"mono", "split"} -> 1
      [] mode \in {"stereo", "mono_to_stereo"} -> 2
      [] OTHER -> IF AnyStereo(trs) THEN 2 ELSE 1

\* C15: when total_frames = 0 every mode returns empty data with the
\* reference rate and the channel count the mode reports for a non-empty
\* range: 1 for mono and split, 2 for stereo and mono_to_stereo, 2 iff a track
\* is stereo for auto.
C15_EmptyRangeReportsPolicy ==
    ExportedNoFrames =>
        /\ Len(last.items) = 1
        /\ last.items[1].data = <<>>
        /\ last.items[1].sample_rate = tracks[1].sample_rate
        /\ last.items[1].channels = PolicyChannels(tracks, last.mode)

\* The n-th stereo track of the store, in store order
StereoIndex(trs, n) ==
    CHOOSE k \in 1..Len(trs) :
        /\ trs[k].channels = 2
        /\ Cardinality({j \in 1..k : trs[j].channels = 2}) = n

StereoCount(trs) == Cardinality({k \in 1..Len(trs) : trs[k].channels = 2})

\* C16: split over a non-empty range returns, for each stereo track in store
\* order, a mono output "_L" with the track's left samples of the range and a
\* mono output "_R" with its right samples, of equal length (total_frames
\* frames from the track's start frame, or as many as the track has); mono
\* tracks add no output; without a stereo track the result is one empty mono
\* output.
C16_SplitOutputs ==
    Exported("split") =>
        LET total_frames == RangeFrames(last.start, last.end, tracks[1].sample_rate)
        IN IF ~AnyStereo(tracks)
           THEN /\ Len(last.items) = 1
                /\ last.items[1].data = <<>>
                /\ last.items[1].channels = 1
           ELSE /\ Len(last.items) = 2 * StereoCount(tracks)
                /\ \A n \in 1..StereoCount(tracks) :
                      LET track == tracks[StereoIndex(tracks, n)]
                          left == last.items[2 * n - 1]
                          right == last.items[2 * n]
                          first == (last.start * track.sample_rate) \div TimeDen
                          frames == Len(track.audio_data) \div 2
                          held == IF frames > first THEN frames - first ELSE 0
                          count == IF held < total_frames THEN held ELSE total_frames
                      IN /\ left.suffix = "_L" /\ right.suffix = "_R"
                         /\ left.channels = 1 /\ right.channels = 1
                         /\ Len(left.data) = count /\ Len(right.data) = count
                         /\ \A i \in 1..count :
                               /\ left.data[i] = track.audio_data[2 * (first + i - 1) + 1]
                               /\ right.data[i] = track.audio_data[2 * (first + i - 1) + 2]

\* Two stereo tracks, of two frames and of one, were split over two frames.
C16_Witness ==
    /\ Exported("split")
    /\ Len(tracks) = 2
    /\ tracks[1].channels = 2 /\ tracks[2].channels = 2
    /\ Len(last.items) = 4
    /\ last.items[1].data = <<1, 3>> /\ last.items[1].suffix = "_L"
    /\ last.items[2].data = <<2, 4>> /\ last.items[2].suffix = "_R"
    /\ last.items[3].data = <<1>> /\ last.items[3].suffix = "_L"
    /\ last.items[4].data = <<2>> /\ last.items[4].suffix = "_R"

\* The n-th mono track of the store, in store order
MonoIndex(trs, n) ==
    CHOOSE k \in 1..Len(trs) :
        /\ trs[k].channels = 1
        /\ Cardinality({j \in 1..k : trs[j].channels = 1}) = n

MonoCount(trs) == Cardinality({k \in 1..Len(trs) : trs[k].channels = 1})

\* The track on a side (0 = L, 1 = R) of the p-th pair of mono tracks
PairTrack(trs, p, side) == trs[MonoIndex(trs, 2 * (p - 1) + side + 1)]

\* A mono track has a sample for frame f of a range that starts at start
HasSampleAt(track, start, f) ==
    ((start * track.sample_rate) \div TimeDen) + f < Len(track.audio_data)

SampleAt(track, start, f) ==
    track.audio_data[((start * track.sample_rate) \div TimeDen) + f + 1]

\* The store without its stereo tracks and without an unpaired last mono track
PairedMonoOnly(trs) ==
    LET paired == {MonoIndex(trs, n) : n \in 1..(2 * (MonoCount(trs) \div 2))}
    IN SelectSeq([k \in 1..Len(trs) |-> [track |-> trs[k], at |-> k]],
                 LAMBDA e : e.at \in paired)

RECURSIVE TracksOf(_)
TracksOf(entries) ==
    IF entries = <<>> THEN <<>> ELSE <<Head(entries).track>> \o TracksOf(Tail(entries))

SummaryAsClaimed(track, start, end, num_pixels, summary) ==
    LET frames == Len(track.audio_data) \div track.channels
        floor_start == (start * track.sample_rate) \div TimeDen
        floor_end == (end * track.sample_rate) \div TimeDen
        start_frame == IF floor_start < frames THEN floor_start ELSE frames
        end_frame == IF floor_end < frames THEN floor_end ELSE frames
    IN IF start_frame >= end_frame
       THEN summary = [i \in 1..num_pixels |-> <<0, 0, 0, 0>>]
       ELSE IF end_frame - start_frame < num_pixels
            THEN /\ Len(summary) = end_frame - start_frame
                 /\ \A n \in 1..(end_frame - start_frame) :
                       LET frame == start_frame + n - 1
                           left == track.audio_data[frame * track.channels + 1]
                           right == track.audio_data[frame * track.channels
                                                         + track.channels]
                       IN summary[n] = <<0, left, 0, right>>
            ELSE Len(summary) = num_pixels

C18_SummaryShape ==
    (last.op = "waveform" /\ last.num_pixels > 0) =>
        /\ Len(last.ret) = Len(tracks)
        /\ \A k \in 1..Len(tracks) :
              SummaryAsClaimed(tracks[k], last.start, last.end, last.num_pixels,
                               last.ret[k])

\* C18: for every track and N > 0 pixels the summary has N zero tuples when
\* the clamped start_frame >= end_frame, end_frame - start_frame tuples
\* (0, L_n, 0, R_n) when that count is < N, and N tuples otherwise; the call
\* leaves the tracks and the playback state as they were, so that a second
\* call with the same arguments returns the same.
C18_WaveformSummary ==
    /\ []C18_SummaryShape
    /\ [][last'.op = "waveform" =>
            /\ GetWaveformForRange(last'.start, last'.end, last'.num_pixels)
            /\ UNCHANGED <<tracks, playback, playback_sample_rate>>]_vars

\* A stereo track of two frames was summarised over both frames at three
\* pixels: one entry per frame, not per pixel.
C18_Witness ==
    /\ last.op = "waveform" /\ last.num_pixels = 3
    /\ Len(tracks) = 1
    /\ tracks[1].channels = 2
    /\ last.ret = <<<< <<0, 1, 0, 2>>, <<0, 3, 0, 4>> >>>>

\* The call has been turned away by one of the encoder's checks.
FlacRejected == flac.result \in {"TooShort", "InvalidConfig"}

\* C19: encode_flac_with_level returns an encoded stream iff the level is
\* <= 8 and the input holds at least 16 samples per channel; otherwise it
\* returns an error, no byte has been produced and no file is written.
C19_EncodeAcceptance ==
    flac.pc # "idle" =>
        LET accepted == /\ flac.compression_level <= 8
                        /\ flac.len \div flac.channels >= 16
        IN /\ FlacRejected <=> ~accepted
           /\ FlacRejected => /\ flac.pc = "done"
                              /\ flac.writer = <<>>
                              /\ flac.file = "none"
           /\ (accepted /\ flac.pc \in {"encoded", "done"}) =>
                 /\ Len(flac.writer) >= 3
                 /\ flac.writer[1].kind = "signature"
                 /\ flac.writer[2].kind = "streaminfo"
                 /\ flac.writer[3].kind = "frame"

\* A stereo input of exactly 16 samples per channel was encoded at level 8
\* and written.
C19_Witness ==
    /\ flac.pc = "done" /\ flac.result = "ok" /\ flac.file = "written"
    /\ flac.channels = 2 /\ flac.len = 32
    /\ flac.compression_level = 8

\* The frames the encoder has written so far
FlacFrames == SubSeq(flac.writer, 3, Len(flac.writer))

RECURSIVE BlockSizeSum(_)
BlockSizeSum(frames) ==
    IF frames = <<>> THEN 0 ELSE Head(frames).block_size + BlockSizeSum(Tail(frames))

\* The frames of a finished stream are numbered 0, 1, 2, ..., follow one
\* another in the input without gap or overlap from sample 0 to the last whole
\* frame, all but the last have the level's block size and the last the rest.
C20_FramesCoverInput ==
    (flac.pc \in {"encoded", "done"} /\ ~FlacRejected) =>
        LET total == flac.len \div flac.channels
            of_level == IF flac.compression_level <= 2 THEN 1152 ELSE 4096
            size == IF of_level > total THEN total ELSE of_level
            n == Len(FlacFrames)
        IN /\ n >= 1
           /\ \A i \in 1..n :
                 /\ FlacFrames[i].frame_number = i - 1
                 /\ FlacFrames[i].sample_offset = (i - 1) * size * flac.channels
                 /\ i < n => FlacFrames[i].block_size = size
           /\ FlacFrames[n].block_size = total - (n - 1) * size
           /\ FlacFrames[n].block_size >= 1
           /\ BlockSizeSum(FlacFrames) = total

\* C20: for every accepted input the frame loop terminates (each iteration
\* moves sample_offset forward within the input), and the frames carry
\* consecutive numbers from 0 and block sizes that sum to the samples per
\* channel: the level's block size (1152 for levels 0-2, 4096 for 3-8, clamped
\* to [16, total]) for all but the last, the remainder for the last, no
\* sample encoded twice or skipped.
C20_FrameLoop ==
    /\ []C20_FramesCoverInput
    /\ [][flac.pc = "frames" =>
            \/ flac'.pc = "encoded"
            \/ /\ flac'.pc = "frames"
               /\ flac'.sample_offset > flac.sample_offset
               /\ flac'.sample_offset <= flac.len]_vars
    /\ (flac.pc = "frames") ~> (flac.pc = "encoded")

\* A mono input of 4096 + 4096 + 100 samples was encoded at level 5 in three
\* frames.
C20_Witness ==
    /\ flac.pc = "done" /\ flac.result = "ok"
    /\ flac.channels = 1 /\ flac.compression_level = 5
    /\ flac.len = 8292
    /\ Len(FlacFrames) = 3
    /\ FlacFrames[2].sample_offset = 4096
    /\ FlacFrames[3].block_size = 100

\* C22 as stated: in every observable state, position = len(buffer) implies
\* that is_playing is false.
C22_AsStated ==
    (HasPlayback /\ Observable /\ playback[1].position = Len(playback[1].buffer)) =>
        ~playback[1].is_playing

\* C22, amended: is_playing may stand with position = len(buffer), until the
\* next callback block: a block that starts at the end of the buffer, or that
\* is longer than what a playing buffer has left, ends with is_playing false
\* and position = len(buffer).
C22_EndFlagWithinOneBlock ==
    [][\A n \in 1..MaxBlock :
          (/\ Callback(n)
           /\ \/ playback[1].position = Len(playback[1].buffer)
              \/ /\ playback[1].is_playing
                 /\ n > Len(playback[1].buffer) - playback[1].position) =>
             /\ ~playback'[1].is_playing
             /\ playback'[1].position = Len(playback[1].buffer)
             /\ playback'[1].buffer = playback[1].buffer]_vars

\* play submitted an empty mix and returned with is_playing true; no facade
\* call followed, and a callback block has lowered the flag.
C22_Witness ==
    /\ HasPlayback /\ Observable /\ pc = "idle"
    /\ last.op = "play" /\ last.path = "fresh" /\ last.result = "ok"
    /\ playback[1].buffer = <<>>
    /\ playback[1].position = 0
    /\ ~playback[1].is_playing

\* C23: every play that submits a mix submits it to a playback object opened
\* with the mix's sample rate and the mix's channel count, so that the
\* transport time is computed with the channel count of the buffer played.
C23_StreamOpenedForMix ==
    [][(PlayCall /\ last'.path = "fresh" /\ last'.result # "err") =>
          LET start == IF pending'.start_time = <<>> THEN 0 ELSE pending'.start_time[1]
              end == IF pending'.end_time = <<>> THEN GetDuration(tracks)
                     ELSE pending'.end_time[1]
              mix == MixTracksForPlayback(tracks, start, end)
          IN /\ pending'.buffer = mix.data
             /\ playback'[1].sample_rate = mix.sample_rate
             /\ playback'[1].channels = mix.channels]_vars

\* A step in which the owner calls set_playback_position
SeekStep == last'.op = "set_position" /\ SetPlaybackPosition(last'.position)

\* C24: set_position(seconds) sets position to
\* min(floor(seconds * rate) * channels, len(buffer)), rate and channels being
\* those the playback object was opened with, and leaves is_playing,
\* is_paused, buffer and start_time_offset as they were, whether the playback
\* is playing, paused or idle; without a playback object nothing changes.
C24_SeekSetsPositionOnly ==
    [][SeekStep =>
          IF HasPlayback
          THEN LET st == playback[1]
                   frame == (last'.position * st.sample_rate) \div TimeDen
                   sample_position == frame * st.channels
               IN /\ HasPlayback'
                  /\ playback'[1].position =
                        (IF sample_position <= Len(st.buffer)
                         THEN sample_position ELSE Len(st.buffer))
                  /\ playback'[1].is_playing = st.is_playing
                  /\ playback'[1].is_paused = st.is_paused
                  /\ playback'[1].buffer = st.buffer
                  /\ playback'[1].start_time_offset = st.start_time_offset
                  /\ playback'[1].sample_rate = st.sample_rate
                  /\ playback'[1].channels = st.channels
          ELSE playback' = playback]_vars

\* A seek to a frame in the middle of the buffer of a paused playback: the
\* playback is still paused.
C24_Witness ==
    /\ HasPlayback /\ Observable
    /\ last.op = "set_position"
    /\ playback[1].is_paused /\ ~playback[1].is_playing
    /\ playback[1].position > 0
    /\ playback[1].position < Len(playback[1].buffer)
    /\ playback[1].position =
          ToFrame(last.position, playback[1].sample_rate) * playback[1].channels

\* What clear_tracks leaves, for as long as it is the owner's last call
C25_Cleared ==
    last.op = "clear" =>
        /\ tracks = <<>>
        /\ ~HasPlayback
        /\ playback_sample_rate = <<>>
        /\ EngineIsPlaying = FALSE
        /\ EngineGetPlaybackPosition[1] = 0

\* C25: after clear_tracks, from a playing, a paused or an idle engine, the
\* store is empty, there is no playback object, is_playing reports false and
\* playback_position 0; without a playback object pause, stop and
\* set_playback_position change nothing, and the next play that succeeds
\* opens a new stream for its mix, whatever the mix's rate.
C25_ClearTearsDown ==
    /\ []C25_Cleared
    /\ [][(~HasPlayback /\ (EnginePause \/ EngineStop \/ Seek)) =>
            /\ UNCHANGED <<tracks, playback, playback_sample_rate, pc, lock, pending>>
            /\ ~EngineIsPlaying'
            /\ EngineGetPlaybackPosition'[1] = 0]_vars
    /\ [][(PlayCall /\ ~HasPlayback /\ last'.result # "err") =>
            LET start == IF pending'.start_time = <<>> THEN 0 ELSE pending'.start_time[1]
                end == IF pending'.end_time = <<>> THEN GetDuration(tracks)
                       ELSE pending'.end_time[1]
                mix == MixTracksForPlayback(tracks, start, end)
            IN /\ last'.path = "fresh" /\ last'.built
               /\ playback' = <<NewPlayback(mix.sample_rate, mix.channels)>>
               /\ playback_sample_rate' = <<mix.sample_rate>>]_vars

\* clear_tracks has returned; it found a playback playing and closed its
\* stream.
C25_Witness ==
    /\ last.op = "clear" /\ last.from = "playing"
    /\ last.rate # <<>>
    /\ tracks = <<>> /\ ~HasPlayback

\* C27: delete_region whose end sample lies before its start sample in a
\* listed track that the start sample is within returns success and leaves
\* every buffer as it was; and no delete_region call aborts the engine.
C27_ReversedRegionCompletes ==
    /\ [][(/\ DeleteStep
           /\ \E k \in Listed(tracks, last'.indices) :
                 LET track == tracks[k]
                     start_sample == ((last'.start * track.sample_rate) \div TimeDen)
                                         * track.channels
                     end_sample == ((last'.end * track.sample_rate) \div TimeDen)
                                       * track.channels
                 IN start_sample < Len(track.audio_data) /\ end_sample < start_sample) =>
             /\ last'.result = "ok"
             /\ tracks' = tracks]_vars
    /\ [](last.op = "delete" => (last.result = "ok" /\ ~aborted))

\* The time t lies on a frame boundary of the stream and inside the range
\* the playback object st is playing: [offset, offset + frames / rate)
InPlayedRange(st, t) ==
    /\ (t * st.sample_rate) % TimeDen = 0
    /\ t >= st.start_time_offset
    /\ (t - st.start_time_offset) * st.sample_rate
           < (Len(st.buffer) \div st.channels) * TimeDen

\* C28: set_playback_position(t), for a frame-aligned t inside the range
\* being played, leaves a state in which playback_position reports t, also
\* when the range was started at a non-zero start time.
C28_SeekThenPositionIsIdentity ==
    [][(SeekStep /\ HasPlayback /\ InPlayedRange(playback[1], last'.position)) =>
          LET reported == EngineGetPlaybackPosition'
          IN reported[1] = last'.position * reported[2]]_vars

\* C29: whenever the owner's last call is a play that returned success, the
\* playback is not paused, whatever loads, transport calls and callbacks came
\* before; a playback paused on an empty buffer is no exception.
C29_PlayLeavesNotPaused ==
    (pc = "idle" /\ last.op = "play" /\ last.result = "ok") => ~EngineIsPaused

\* The bits of the subframe, in the order written
RECURSIVE Flatten(_)
Flatten(fields) ==
    IF fields = <<>> THEN <<>> ELSE Head(fields).bits \o Flatten(Tail(fields))

\* The number a string of bits stands for, unsigned and in two's complement
RECURSIVE Unsigned(_)
Unsigned(b) ==
    IF b = <<>> THEN 0 ELSE 2 * Unsigned(SubSeq(b, 1, Len(b) - 1)) + b[Len(b)]

Signed(b) == IF b[1] = 1 THEN Unsigned(b) - 2^Len(b) ELSE Unsigned(b)

\* What a reader of the stream returns: whether the bits were there, the
\* number of bits read so far, and the values read
Unreadable == [ok |-> FALSE, at |-> 0, values |-> <<>>]
Read(at, values) == [ok |-> TRUE, at |-> at, values |-> values]

\* The zeros before the next one bit after the first p bits; -1 if there is
\* no one bit left
RECURSIVE ZerosFrom(_, _)
ZerosFrom(bits, p) ==
    IF p >= Len(bits) THEN -1
    ELSE IF bits[p + 1] = 1 THEN 0
    ELSE LET z == ZerosFrom(bits, p + 1) IN IF z < 0 THEN -1 ELSE z + 1

\* n Rice codes of parameter k after the first p bits, each unfolded by the
\* inverse of the zigzag map
RECURSIVE ReadRice(_, _, _, _)
ReadRice(bits, p, n, k) ==
    IF n = 0 THEN Read(p, <<>>)
    ELSE LET zeros == ZerosFrom(bits, p)
         IN IF zeros < 0 \/ p + zeros + 1 + k > Len(bits) THEN Unreadable
            ELSE LET low == Unsigned(SubSeq(bits, p + zeros + 2, p + zeros + 1 + k))
                     folded == zeros * 2^k + low
                     value == IF folded % 2 = 0 THEN folded \div 2
                              ELSE -((folded + 1) \div 2)
                     rest == ReadRice(bits, p + zeros + 1 + k, n - 1, k)
                 IN IF rest.ok THEN Read(rest.at, <<value>> \o rest.values)
                    ELSE Unreadable

\* n residuals of w bits each, unencoded, after the first p bits
ReadRaw(bits, p, n, w) ==
    IF p + n * w > Len(bits) THEN Unreadable
    ELSE Read(p + n * w,
              [i \in 1..n |-> IF w = 0 THEN 0
                              ELSE Signed(SubSeq(bits, p + (i - 1) * w + 1, p + i * w))])

\* The partitions of a residual, from the given one on: each a 4-bit Rice
\* parameter (1111: five bits of width and unencoded residuals) and its
\* residuals, the first partition holding `order` fewer
RECURSIVE ReadPartitions(_, _, _, _, _, _)
ReadPartitions(bits, p, partition, partitions, per_partition, order) ==
    IF partition >= partitions THEN Read(p, <<>>)
    ELSE LET n == IF partition = 0 THEN per_partition - order ELSE per_partition
         IN IF n < 0 \/ p + 4 > Len(bits) THEN Unreadable
            ELSE LET k == Unsigned(SubSeq(bits, p + 1, p + 4))
                     this == IF k = 15
                             THEN IF p + 9 > Len(bits) THEN Unreadable
                                  ELSE ReadRaw(bits, p + 9, n,
                                               Unsigned(SubSeq(bits, p + 5, p + 9)))
                             ELSE ReadRice(bits, p + 4, n, k)
                 IN IF ~this.ok THEN Unreadable
                    ELSE LET rest == ReadPartitions(bits, this.at, partition + 1,
                                                    partitions, per_partition, order)
                         IN IF rest.ok THEN Read(rest.at, this.values \o rest.values)
                            ELSE Unreadable

\* The fixed prediction added back to each residual in turn
RECURSIVE Restore(_, _, _)
Restore(decoded, residual, order) ==
    IF residual = <<>> THEN decoded
    ELSE LET n == Len(decoded)
             prediction ==
                 CASE order = 0 -> 0
                   [] order = 1 -> decoded[n]
                   [] order = 2 -> 2 * decoded[n] - decoded[n - 1]
                   [] order = 3 -> 3 * decoded[n] - 3 * decoded[n - 1] + decoded[n - 2]
                   [] order = 4 -> 4 * decoded[n] - 6 * decoded[n - 1]
                                       + 4 * decoded[n - 2] - decoded[n - 3]
         IN Restore(Append(decoded, Head(residual) + prediction), Tail(residual), order)

\* A decoder of one subframe of block_size samples of bits_per_sample bits:
\* the zero bit, the type (000001 verbatim, 001ppp fixed of order ppp), the
\* wasted-bits flag; then the samples verbatim, or the warm-up samples
\* verbatim, the coding method, the partition order and the partitions.
DecodeSubframe(bits, block_size, bits_per_sample) ==
    IF Len(bits) < 8 THEN Unreadable
    ELSE LET type == Unsigned(SubSeq(bits, 2, 7))
             order == type - 8
             sample(n) == Signed(SubSeq(bits, 8 + (n - 1) * bits_per_sample + 1,
                                        8 + n * bits_per_sample))
             q == 8 + order * bits_per_sample
         IN IF bits[1] # 0 \/ bits[8] # 0 THEN Unreadable
            ELSE IF type = 1
                 THEN IF 8 + block_size * bits_per_sample > Len(bits) THEN Unreadable
                      ELSE Read(8 + block_size * bits_per_sample,
                                [n \in 1..block_size |-> sample(n)])
            ELSE IF type \in 8..12
                 THEN IF order > block_size \/ q + 6 > Len(bits) THEN Unreadable
                      ELSE LET method == Unsigned(SubSeq(bits, q + 1, q + 2))
                               partitions == 2^Unsigned(SubSeq(bits, q + 3, q + 6))
                           IN IF method # 0 \/ block_size % partitions # 0
                              THEN Unreadable
                              ELSE LET r == ReadPartitions(bits, q + 6, 0, partitions,
                                                           block_size \div partitions,
                                                           order)
                                   IN IF r.ok
                                      THEN Read(r.at, Restore([n \in 1..order |-> sample(n)],
                                                              r.values, order))
                                      ELSE Unreadable
            ELSE Unreadable

SubframeWritten == subframe.pc = "done"

\* C21: the subframe encode_subframe writes for a block of 16-bit samples
\* decodes, bit for bit and to its last bit, to the samples of the block, at
\* every level and so for every predictor order the encoder selects.
C21_SubframeLossless ==
    SubframeWritten =>
        LET bits == Flatten(subframe.writer)
            decoded == DecodeSubframe(bits, Len(subframe.samples), BitsPerSample)
        IN /\ decoded.ok
           /\ decoded.values = subframe.samples
           /\ decoded.at = Len(bits)

\* The fields of the written subframe that one place of the encoder wrote
FieldsOf(what) == SelectSeq(subframe.writer, LAMBDA f : f.what = what)
PartitionFields(what, p) ==
    SelectSeq(subframe.writer, LAMBDA f : f.what = what /\ f.at = p)

SubframeOrder == PredictorOrder(subframe.compression_level, Len(subframe.samples))
WrittenPartitionOrder == Unsigned(FieldsOf("partition_order")[1].bits)

\* The residuals of partition p (counted from 0) of the written subframe:
\* those of the block's samples [p * size, (p + 1) * size) past the warm-up
PartitionResidual(p) ==
    LET size == Len(subframe.samples) \div 2^WrittenPartitionOrder
        residual == ApplyFixedPredictor(subframe.samples, SubframeOrder)
    IN SubSeq(residual, Max(p * size, SubframeOrder) + 1, (p + 1) * size)

FloorLog2(m) == CHOOSE k \in 0..24 : 2^k <= m /\ m < 2^(k + 1)

RECURSIVE AbsoluteSum(_, _)
AbsoluteSum(r, n) ==
    IF n = 0 THEN 0 ELSE (IF r[n] < 0 THEN -r[n] ELSE r[n]) + AbsoluteSum(r, n - 1)

\* The reference value of the Rice parameter of a non-empty partition
RiceReference(r) ==
    LET mean == AbsoluteSum(r, Len(r)) \div Len(r)
    IN IF mean = 0 THEN 0
       ELSE LET param == FloorLog2(mean)
                lowered == IF param > 0 /\ mean < 2^(param - 1) THEN param - 1 ELSE param
            IN IF lowered > 14 THEN 14 ELSE IF lowered < 0 THEN 0 ELSE lowered

\* C26: in a fixed-predictor subframe every partition that holds residuals
\* has one Rice parameter field, of 4 bits, whose value is the reference
\* value of the partition's residuals; no Rice parameter field holds 1111,
\* which the escape path alone writes.
C26_RiceParameterIsReference ==
    (SubframeWritten /\ SubframeOrder > 0) =>
        /\ \A p \in 0..(2^WrittenPartitionOrder - 1) :
              PartitionResidual(p) # <<>> =>
                  /\ Len(PartitionFields("escape", p)) = 0
                  /\ Len(PartitionFields("rice_param", p)) = 1
                  /\ Len(PartitionFields("rice_param", p)[1].bits) = 4
                  /\ Unsigned(PartitionFields("rice_param", p)[1].bits)
                         = RiceReference(PartitionResidual(p))
        /\ \A i \in 1..Len(subframe.writer) :
              subframe.writer[i].what = "rice_param" =>
                  subframe.writer[i].bits # <<1, 1, 1, 1>>

\* A subframe of two partitions: the mean of the first one's residuals is
\* 2^15 or more and its parameter the clamp's 14, the second one's are zeros
\* and its parameter 0.
C26_Witness ==
    /\ SubframeWritten /\ SubframeOrder > 0
    /\ WrittenPartitionOrder = 1
    /\ AbsoluteSum(PartitionResidual(0), Len(PartitionResidual(0)))
           \div Len(PartitionResidual(0)) >= 2^15
    /\ Unsigned(PartitionFields("rice_param", 0)[1].bits) = 14
    /\ Unsigned(PartitionFields("rice_param", 1)[1].bits) = 0

\* C30: a fixed-predictor subframe holds 2^partition_order Rice parameter
\* fields (escape codes among them), its block size is a multiple of
\* 2^partition_order, and its partitions hold block_size - predictor_order
\* residuals in all; and this also when the first partition holds none.
C30_OneParameterPerPartition ==
    (SubframeWritten /\ SubframeOrder > 0) =>
        /\ Len(FieldsOf("rice_param")) + Len(FieldsOf("escape"))
               = 2^WrittenPartitionOrder
        /\ Len(subframe.samples) % 2^WrittenPartitionOrder = 0
        /\ Len(FieldsOf("rice_msb")) + Len(FieldsOf("raw"))
               = Len(subframe.samples) - SubframeOrder

====
